---- MODULE Spec2Model ----
(***************************************************************************)
(* Model of the deterministic result generator of js/script.js             *)
(* (class DickSizeChecker, both copies held by the file: the 1-13 inch     *)
(* copy at lines 7-554 and the 3-10 inch copy at lines 670-1148).          *)
(*                                                                         *)
(* Strings are sequences of UTF-16 code units.  JavaScript numbers are     *)
(* modelled by integers: 32-bit quantities keep their width (the           *)
(* arithmetic is done on 16-bit limbs so that no intermediate value        *)
(* leaves the range of the checker's integers), and the result of          *)
(* Math.abs, which can be 2^31, is kept as a pair of limbs.                *)
(***************************************************************************)
EXTENDS Integers, Sequences, FiniteSets, TLC

\* Longest string of the enumerated inputs of hashUsername.
MaxLen == 3
\* Number of calls of generateResults in a behaviour.
MaxCalls == 3
\* Largest size, in tenths, of the enumerated inputs of getDescriptionForSize.
MaxTenths == 140

\* Number of user events (submit, "try again") in a behaviour.
MaxEvents == 2

\* Number of clicks on the share button in a behaviour.
MaxShares == 1

\* Number of events on the modals in a behaviour.
MaxModalEvents == 3

\* Number of calls of validateAndFormatInput on one text.
MaxFormatCalls == 2

VARIABLES
  copy,      \* which copy of the class is loaded: 1 (1-13 inches) or 2 (3-10 inches)
  hUsername, \* hashUsername: the argument
  hStr,      \* hashUsername: const str = username.toLowerCase()
  hI,        \* hashUsername: number of characters consumed by the loop
  hHash,     \* hashUsername: let hash (a signed 32-bit integer after line 364)
  hPc,       \* hashUsername: "entry", "loop" or "done"
  hRet,      \* hashUsername: the value returned (limbs), NoValue before the return
  dRnd1,     \* the value seededRandom(seed) returned to the last normalDistribution
  dSeed,     \* normalDistribution: the argument seed (limbs)
  dRnd2,     \* normalDistribution: the value seededRandom(seed + 1) returned
  dNormal,   \* normalDistribution: const normal, in units of 10^-6
  dScaled,   \* normalDistribution: const scaled, in units of 10^-6
  dRet,      \* normalDistribution: the value returned, in units of 10^-6
  dPc,       \* normalDistribution: "idle", "called", "sampled", "normal", "scaled", "returned"
  gUsername, \* generateResults: the argument of the last call
  gHash,     \* generateResults: const hash
  gSize,     \* generateResults: const size, in tenths (before the unit conversion)
  gResult,   \* generateResults: the record returned by the last call
  gPc,       \* generateResults: "idle", "called" or "returned"
  gLog,      \* the calls of generateResults so far: argument, locals and result
  cSize,     \* getDescriptionForSize: the argument size, in tenths
  cHash,     \* getDescriptionForSize: the argument hash
  cI,        \* getDescriptionForSize: the position of the for-of loop (1-based)
  cPc,       \* getDescriptionForSize: "idle", "scan" or "done"
  cRet,      \* getDescriptionForSize: the description returned
  pSize,     \* calculatePercentile: the argument size, in tenths
  pPc,       \* calculatePercentile: "idle", "called" or "returned"
  pRet,      \* calculatePercentile: the value returned
  inputValue,      \* this.elements.usernameInput.value
  inputAnimation,  \* this.elements.usernameInput.style.animation
  sectionHidden,   \* for each section, whether its classList holds 'hidden'
  loadingMessage,  \* this.elements.loadingMessage.textContent: index into loadingMessages, 0 before the first
  resultText,      \* the textContent of the result elements written by displayResults
  confidenceWidth, \* this.elements.confidenceFill.style.width
  currentResults,  \* this.currentResults
  errorElement,    \* the .error-message element of the document, Null when there is none
  errorsCreated,   \* number of .error-message elements created so far
  timers,          \* the pending setTimeout callbacks, in the order they come due
  events,          \* number of user events so far
  lastEvent,       \* the latest user event: its type and, for a submit, the value of the field
  started,         \* the usernames performAnalysis has been called with, in order
  completed,       \* the performAnalysis calls that have returned: what each displayed
  lastCall,        \* which of displayResults and resetToInitialState was called last, "none" before both
  shareWindows,    \* the calls of shareResult so far: the text of the window opened, Null when none was
  modalHidden,     \* for each modal, whether its classList holds 'hidden'
  bodyOverflow,    \* document.body.style.overflow
  focused,         \* the close button showModal focused last, "" before the first
  modalEvents,     \* the events on the modals so far
  fInput,          \* validateAndFormatInput: input.value before the first call
  fValue,          \* validateAndFormatInput: input.value now
  fWrapper,        \* validateAndFormatInput: those of 'valid', 'invalid' in the wrapper's classList
  fHistory,        \* validateAndFormatInput: input.value after each call so far
  bInput,          \* both copies' generateResults: the argument, or the two random values drawn
  bResults         \* both copies' generateResults: what each copy computed, NoValue before

hashVars == <<hUsername, hStr, hI, hHash, hPc, hRet>>
distVars == <<dRnd1>>
normVars == <<dSeed, dRnd2, dNormal, dScaled, dRet, dPc>>
genVars == <<gUsername, gHash, gSize, gResult, gPc, gLog>>
catVars == <<cSize, cHash, cI, cPc, cRet>>
pctVars == <<pSize, pPc, pRet>>
uiVars ==
  <<inputValue, inputAnimation, sectionHidden, loadingMessage, resultText,
    confidenceWidth, currentResults, errorElement, errorsCreated, timers,
    events, lastEvent, started, completed, lastCall>>
shareVars == <<shareWindows>>
modalVars == <<modalHidden, bodyOverflow, focused, modalEvents>>
formatVars == <<fInput, fValue, fWrapper, fHistory>>
bothVars == <<bInput, bResults>>
pageVars == <<shareVars, modalVars, formatVars, bothVars>>

vars == <<copy, hashVars, distVars, normVars, genVars, catVars, pctVars, uiVars, pageVars>>

NoValue == [none |-> TRUE]

(***************************************************************************)
(* 32-bit integer arithmetic on 16-bit limbs.                              *)
(***************************************************************************)
Limb == 2^16

\* High and low limb of an integer x = Hi(x) * 2^16 + Lo(x), 0 <= Lo(x) < 2^16.
Hi(x) == x \div Limb
Lo(x) == x % Limb

\* ECMAScript ToInt32 of the number hi * 2^16 + lo (limbs not normalised).
ToInt32(hi, lo) ==
  LET h == hi + (lo \div Limb)
  IN  (((h + 2^15) % Limb) - 2^15) * Limb + (lo % Limb)

\* hash << 5 : the left operand is an int32, the result is an int32.
ShiftLeft5(h) == ToInt32(Hi(h) * 32, Lo(h) * 32)

\* The loop body of hashUsername, lines 363-364:
\*   hash = ((hash << 5) - hash) + char;  hash = hash & hash;
\* The subtraction and the addition are exact (double arithmetic on values
\* below 2^53); hash & hash is ToInt32.
HashStepTimes33(h, c) ==
  LET s == ShiftLeft5(h)
  IN  ToInt32(Hi(s) + Hi(h), (Lo(s) + Lo(h)) + c)
HashStep(h, c) ==
  LET s == ShiftLeft5(h)
  IN  ToInt32(Hi(s) - Hi(h), (Lo(s) - Lo(h)) + c)

\* Math.abs on an int32: the result is a double, so abs(-2^31) = 2^31.
\* The result is the pair of limbs [hi, lo] of the non-negative value.
MathAbsInt32(h) ==
  IF h >= 0 THEN [hi |-> Hi(h), lo |-> Lo(h)]
  ELSE IF h = (-(2^15)) * Limb THEN [hi |-> Hi(h), lo |-> Lo(h)]
  ELSE [hi |-> Hi(-h), lo |-> Lo(-h)]
MathAbs(h) ==
  IF h >= 0 THEN [hi |-> Hi(h), lo |-> Lo(h)]
  ELSE IF Lo(h) = 0 THEN [hi |-> -Hi(h), lo |-> 0]
  ELSE [hi |-> (-Hi(h)) - 1, lo |-> Limb - Lo(h)]

\* x % n for a non-negative limb pair x and 0 < n <= 2^15.
WideMod(x, n) == (((x.hi % n) * (Limb % n)) + (x.lo % n)) % n

\* x + 1 for a non-negative limb pair.
WideSucc(x) ==
  IF x.lo = Limb - 1 THEN [hi |-> x.hi + 1, lo |-> 0]
  ELSE [hi |-> x.hi, lo |-> x.lo + 1]

(***************************************************************************)
(* Strings.                                                                *)
(***************************************************************************)
\* String.prototype.toLowerCase on the ASCII code units the model uses.
LowerChar(c) == IF c \in 65..90 THEN c + 32 ELSE c
toLowerCaseIdentity(s) == s
toLowerCase(s) == [i \in 1..Len(s) |-> LowerChar(s[i])]

\* /^[a-zA-Z0-9_]{1,15}$/.test(username) && username.length >= 1
WordChar(c) == c \in (48..57) \cup (65..90) \cup (97..122) \cup {95}
isValidUsernameUnanchored(username) ==
  \E i \in 1..Len(username) : WordChar(username[i])
isValidUsername(username) ==
  /\ Len(username) \in 1..15
  /\ \A i \in 1..Len(username) : WordChar(username[i])
  /\ Len(username) >= 1

(***************************************************************************)
(* hashUsername, lines 357-368 (and 987-998).                              *)
(***************************************************************************)
RECURSIVE HashLoop(_, _, _)
\* The for loop from index i (0-based) on, with accumulator h.
HashLoop(str, i, h) ==
  IF i < Len(str) THEN HashLoop(str, i + 1, HashStep(h, str[i + 1])) ELSE h

hashUsername(username) == MathAbs(HashLoop(toLowerCase(username), 0, 0))

(***************************************************************************)
(* Floating-point values.  A finite value is an integer in a fixed-point   *)
(* unit stated at each operator; the three special values of IEEE 754      *)
(* that the code can produce are kept apart.                               *)
(***************************************************************************)
Infinity == 2 * 10^9
NegInfinity == -Infinity
NaN == Infinity + 1

IsNaN(x) == x = NaN
IsFinite(x) == x > NegInfinity /\ x < Infinity

\* Math.max / Math.min: NaN if either argument is NaN.
MathMax(a, b) == IF IsNaN(a) \/ IsNaN(b) THEN NaN ELSE IF a >= b THEN a ELSE b
MathMin(a, b) == IF IsNaN(a) \/ IsNaN(b) THEN NaN ELSE IF a <= b THEN a ELSE b

\* Math.log(k / 1000) for k = 1..999, in units of 10^-6 (rounded to nearest).
MathLogTable == <<
    -6907755, -6214608, -5809143, -5521461, -5298317, -5115996, -4961845, -4828314, -4710531, -4605170, -4509860, -4422849,
    -4342806, -4268698, -4199705, -4135167, -4074542, -4017384, -3963316, -3912023, -3863233, -3816713, -3772261, -3729701,
    -3688879, -3649659, -3611918, -3575551, -3540459, -3506558, -3473768, -3442019, -3411248, -3381395, -3352407, -3324236,
    -3296837, -3270169, -3244194, -3218876, -3194183, -3170086, -3146555, -3123566, -3101093, -3079114, -3057608, -3036554,
    -3015935, -2995732, -2975930, -2956512, -2937463, -2918771, -2900422, -2882404, -2864704, -2847312, -2830218, -2813411,
    -2796881, -2780621, -2764621, -2748872, -2733368, -2718101, -2703063, -2688248, -2673649, -2659260, -2645075, -2631089,
    -2617296, -2603690, -2590267, -2577022, -2563950, -2551046, -2538307, -2525729, -2513306, -2501036, -2488915, -2476938,
    -2465104, -2453408, -2441847, -2430418, -2419119, -2407946, -2396896, -2385967, -2375156, -2364460, -2353878, -2343407,
    -2333044, -2322788, -2312635, -2302585, -2292635, -2282782, -2273026, -2263364, -2253795, -2244316, -2234926, -2225624,
    -2216407, -2207275, -2198225, -2189256, -2180367, -2171557, -2162823, -2154165, -2145581, -2137071, -2128632, -2120264,
    -2111965, -2103734, -2095571, -2087474, -2079442, -2071473, -2063568, -2055725, -2047943, -2040221, -2032558, -2024953,
    -2017406, -2009915, -2002481, -1995100, -1987774, -1980502, -1973281, -1966113, -1958995, -1951928, -1944911, -1937942,
    -1931022, -1924149, -1917323, -1910543, -1903809, -1897120, -1890475, -1883875, -1877317, -1870803, -1864330, -1857899,
    -1851509, -1845160, -1838851, -1832581, -1826351, -1820159, -1814005, -1807889, -1801810, -1795767, -1789761, -1783791,
    -1777857, -1771957, -1766092, -1760261, -1754464, -1748700, -1742969, -1737271, -1731606, -1725972, -1720369, -1714798,
    -1709258, -1703749, -1698269, -1692820, -1687399, -1682009, -1676647, -1671313, -1666008, -1660731, -1655482, -1650260,
    -1645065, -1639897, -1634756, -1629641, -1624552, -1619488, -1614450, -1609438, -1604450, -1599488, -1594549, -1589635,
    -1584745, -1579879, -1575036, -1570217, -1565421, -1560648, -1555897, -1551169, -1546463, -1541779, -1537117, -1532477,
    -1527858, -1523260, -1518684, -1514128, -1509593, -1505078, -1500584, -1496109, -1491655, -1487220, -1482805, -1478410,
    -1474033, -1469676, -1465338, -1461018, -1456717, -1452434, -1448170, -1443923, -1439695, -1435485, -1431292, -1427116,
    -1422958, -1418818, -1414694, -1410587, -1406497, -1402424, -1398367, -1394327, -1390302, -1386294, -1382302, -1378326,
    -1374366, -1370421, -1366492, -1362578, -1358679, -1354796, -1350927, -1347074, -1343235, -1339411, -1335601, -1331806,
    -1328025, -1324259, -1320507, -1316768, -1313044, -1309333, -1305636, -1301953, -1298283, -1294627, -1290984, -1287354,
    -1283738, -1280134, -1276543, -1272966, -1269401, -1265848, -1262308, -1258781, -1255266, -1251763, -1248273, -1244795,
    -1241329, -1237874, -1234432, -1231001, -1227583, -1224176, -1220780, -1217396, -1214023, -1210662, -1207312, -1203973,
    -1200645, -1197328, -1194022, -1190728, -1187444, -1184170, -1180908, -1177655, -1174414, -1171183, -1167962, -1164752,
    -1161552, -1158362, -1155183, -1152013, -1148854, -1145704, -1142564, -1139434, -1136314, -1133204, -1130103, -1127012,
    -1123930, -1120858, -1117795, -1114742, -1111698, -1108663, -1105637, -1102620, -1099613, -1096614, -1093625, -1090644,
    -1087672, -1084709, -1081755, -1078810, -1075873, -1072945, -1070025, -1067114, -1064211, -1061317, -1058430, -1055553,
    -1052683, -1049822, -1046969, -1044124, -1041287, -1038458, -1035637, -1032825, -1030019, -1027222, -1024433, -1021651,
    -1018877, -1016111, -1013352, -1010601, -1007858, -1005122, -1002393, -999672, -996959, -994252, -991553, -988861,
    -986177, -983499, -980829, -978166, -975510, -972861, -970219, -967584, -964956, -962335, -959720, -957113,
    -954512, -951918, -949331, -946750, -944176, -941609, -939048, -936493, -933946, -931404, -928870, -926341,
    -923819, -921303, -918794, -916291, -913794, -911303, -908819, -906340, -903868, -901402, -898942, -896488,
    -894040, -891598, -889162, -886732, -884308, -881889, -879477, -877070, -874669, -872274, -869884, -867501,
    -865122, -862750, -860383, -858022, -855666, -853316, -850971, -848632, -846298, -843970, -841647, -839330,
    -837018, -834711, -832409, -830113, -827822, -825536, -823256, -820981, -818710, -816445, -814186, -811931,
    -809681, -807436, -805197, -802962, -800732, -798508, -796288, -794073, -791863, -789658, -787458, -785262,
    -783072, -780886, -778705, -776529, -774357, -772190, -770028, -767871, -765718, -763570, -761426, -759287,
    -757153, -755023, -752897, -750776, -748660, -746548, -744440, -742337, -740239, -738145, -736055, -733969,
    -731888, -729811, -727739, -725670, -723606, -721547, -719491, -717440, -715393, -713350, -711311, -709277,
    -707246, -705220, -703198, -701179, -699165, -697155, -695149, -693147, -691149, -689155, -687165, -685179,
    -683197, -681219, -679244, -677274, -675307, -673345, -671386, -669431, -667479, -665532, -663588, -661649,
    -659712, -657780, -655851, -653926, -652005, -650088, -648174, -646264, -644357, -642454, -640555, -638659,
    -636767, -634878, -632993, -631112, -629234, -627359, -625489, -623621, -621757, -619897, -618040, -616186,
    -614336, -612489, -610646, -608806, -606969, -605136, -603306, -601480, -599657, -597837, -596020, -594207,
    -592397, -590591, -588787, -586987, -585190, -583396, -581606, -579818, -578034, -576253, -574476, -572701,
    -570930, -569161, -567396, -565634, -563875, -562119, -560366, -558616, -556870, -555126, -553385, -551648,
    -549913, -548181, -546453, -544727, -543005, -541285, -539568, -537854, -536143, -534435, -532730, -531028,
    -529329, -527633, -525939, -524249, -522561, -520876, -519194, -517515, -515838, -514165, -512494, -510826,
    -509160, -507498, -505838, -504181, -502527, -500875, -499226, -497580, -495937, -494296, -492658, -491023,
    -489390, -487760, -486133, -484508, -482886, -481267, -479650, -478036, -476424, -474815, -473209, -471605,
    -470004, -468405, -466809, -465215, -463624, -462035, -460449, -458866, -457285, -455706, -454130, -452557,
    -450986, -449417, -447851, -446287, -444726, -443167, -441611, -440057, -438505, -436956, -435409, -433865,
    -432323, -430783, -429246, -427711, -426178, -424648, -423120, -421594, -420071, -418550, -417032, -415515,
    -414001, -412490, -410980, -409473, -407968, -406466, -404965, -403467, -401971, -400478, -398986, -397497,
    -396010, -394525, -393043, -391562, -390084, -388608, -387134, -385662, -384193, -382726, -381260, -379797,
    -378336, -376878, -375421, -373966, -372514, -371064, -369615, -368169, -366725, -365283, -363843, -362406,
    -360970, -359536, -358105, -356675, -355247, -353822, -352398, -350977, -349557, -348140, -346725, -345311,
    -343900, -342490, -341083, -339677, -338274, -336872, -335473, -334075, -332679, -331286, -329894, -328504,
    -327116, -325730, -324346, -322964, -321584, -320205, -318829, -317454, -316082, -314711, -313342, -311975,
    -310610, -309246, -307885, -306525, -305167, -303811, -302457, -301105, -299755, -298406, -297059, -295714,
    -294371, -293030, -291690, -290352, -289016, -287682, -286350, -285019, -283690, -282363, -281038, -279714,
    -278392, -277072, -275754, -274437, -273122, -271809, -270497, -269187, -267879, -266573, -265268, -263966,
    -262664, -261365, -260067, -258771, -257476, -256183, -254892, -253603, -252315, -251029, -249744, -248461,
    -247180, -245901, -244623, -243346, -242072, -240798, -239527, -238257, -236989, -235722, -234457, -233194,
    -231932, -230672, -229413, -228156, -226901, -225647, -224394, -223144, -221894, -220647, -219401, -218156,
    -216913, -215672, -214432, -213193, -211956, -210721, -209487, -208255, -207024, -205795, -204567, -203341,
    -202116, -200893, -199671, -198451, -197232, -196015, -194799, -193585, -192372, -191161, -189951, -188742,
    -187535, -186330, -185125, -183923, -182722, -181522, -180324, -179127, -177931, -176737, -175545, -174353,
    -173164, -171975, -170788, -169603, -168419, -167236, -166055, -164875, -163696, -162519, -161343, -160169,
    -158996, -157824, -156654, -155485, -154317, -153151, -151986, -150823, -149661, -148500, -147341, -146183,
    -145026, -143870, -142716, -141564, -140412, -139262, -138113, -136966, -135820, -134675, -133531, -132389,
    -131248, -130109, -128970, -127833, -126698, -125563, -124430, -123298, -122168, -121038, -119910, -118784,
    -117658, -116534, -115411, -114289, -113169, -112050, -110932, -109815, -108699, -107585, -106472, -105361,
    -104250, -103141, -102033, -100926, -99820, -98716, -97613, -96511, -95410, -94311, -93212, -92115,
    -91019, -89925, -88831, -87739, -86648, -85558, -84469, -83382, -82295, -81210, -80126, -79043,
    -77962, -76881, -75802, -74724, -73647, -72571, -71496, -70422, -69350, -68279, -67209, -66140,
    -65072, -64005, -62940, -61875, -60812, -59750, -58689, -57629, -56570, -55513, -54456, -53401,
    -52346, -51293, -50241, -49190, -48140, -47092, -46044, -44997, -43952, -42908, -41864, -40822,
    -39781, -38741, -37702, -36664, -35627, -34591, -33557, -32523, -31491, -30459, -29429, -28399,
    -27371, -26344, -25318, -24293, -23269, -22246, -21224, -20203, -19183, -18164, -17146, -16129,
    -15114, -14099, -13085, -12073, -11061, -10050, -9041, -8032, -7025, -6018, -5013, -4008,
    -3005, -2002, -1001
  >>
\* Math.cos(2 * Math.PI * (k / 1000)) for k = 0..999 (entry k + 1), in units of
\* 10^-4.  No entry is 0: the double result is never 0 (at k = 250 it is
\* 6.1e-17, at k = 750 it is -1.8e-16), and the entries keep its sign.
MathCosTable == <<
    10000, 10000, 9999, 9998, 9997, 9995, 9993, 9990, 9987, 9984, 9980, 9976,
    9972, 9967, 9961, 9956, 9950, 9943, 9936, 9929, 9921, 9913, 9905, 9896,
    9887, 9877, 9867, 9856, 9846, 9834, 9823, 9811, 9799, 9786, 9773, 9759,
    9745, 9731, 9716, 9701, 9686, 9670, 9654, 9637, 9620, 9603, 9585, 9567,
    9549, 9530, 9511, 9491, 9471, 9451, 9430, 9409, 9387, 9365, 9343, 9321,
    9298, 9274, 9251, 9227, 9202, 9178, 9152, 9127, 9101, 9075, 9048, 9021,
    8994, 8966, 8938, 8910, 8881, 8852, 8823, 8793, 8763, 8733, 8702, 8671,
    8639, 8607, 8575, 8543, 8510, 8477, 8443, 8409, 8375, 8341, 8306, 8271,
    8235, 8200, 8163, 8127, 8090, 8053, 8016, 7978, 7940, 7902, 7863, 7824,
    7785, 7745, 7705, 7665, 7624, 7584, 7543, 7501, 7459, 7417, 7375, 7333,
    7290, 7247, 7203, 7159, 7115, 7071, 7026, 6982, 6937, 6891, 6845, 6800,
    6753, 6707, 6660, 6613, 6566, 6518, 6471, 6423, 6374, 6326, 6277, 6228,
    6179, 6129, 6079, 6029, 5979, 5929, 5878, 5827, 5776, 5724, 5673, 5621,
    5569, 5516, 5464, 5411, 5358, 5305, 5252, 5198, 5144, 5090, 5036, 4982,
    4927, 4873, 4818, 4762, 4707, 4652, 4596, 4540, 4484, 4428, 4371, 4315,
    4258, 4201, 4144, 4086, 4029, 3971, 3914, 3856, 3798, 3740, 3681, 3623,
    3564, 3505, 3446, 3387, 3328, 3269, 3209, 3150, 3090, 3030, 2970, 2910,
    2850, 2790, 2730, 2669, 2608, 2548, 2487, 2426, 2365, 2304, 2243, 2181,
    2120, 2059, 1997, 1935, 1874, 1812, 1750, 1688, 1626, 1564, 1502, 1440,
    1378, 1316, 1253, 1191, 1129, 1066, 1004, 941, 879, 816, 753, 691,
    628, 565, 502, 440, 377, 314, 251, 188, 126, 63, 1, -63,
    -126, -188, -251, -314, -377, -440, -502, -565, -628, -691, -753, -816,
    -879, -941, -1004, -1066, -1129, -1191, -1253, -1316, -1378, -1440, -1502, -1564,
    -1626, -1688, -1750, -1812, -1874, -1935, -1997, -2059, -2120, -2181, -2243, -2304,
    -2365, -2426, -2487, -2548, -2608, -2669, -2730, -2790, -2850, -2910, -2970, -3030,
    -3090, -3150, -3209, -3269, -3328, -3387, -3446, -3505, -3564, -3623, -3681, -3740,
    -3798, -3856, -3914, -3971, -4029, -4086, -4144, -4201, -4258, -4315, -4371, -4428,
    -4484, -4540, -4596, -4652, -4707, -4762, -4818, -4873, -4927, -4982, -5036, -5090,
    -5144, -5198, -5252, -5305, -5358, -5411, -5464, -5516, -5569, -5621, -5673, -5724,
    -5776, -5827, -5878, -5929, -5979, -6029, -6079, -6129, -6179, -6228, -6277, -6326,
    -6374, -6423, -6471, -6518, -6566, -6613, -6660, -6707, -6753, -6800, -6845, -6891,
    -6937, -6982, -7026, -7071, -7115, -7159, -7203, -7247, -7290, -7333, -7375, -7417,
    -7459, -7501, -7543, -7584, -7624, -7665, -7705, -7745, -7785, -7824, -7863, -7902,
    -7940, -7978, -8016, -8053, -8090, -8127, -8163, -8200, -8235, -8271, -8306, -8341,
    -8375, -8409, -8443, -8477, -8510, -8543, -8575, -8607, -8639, -8671, -8702, -8733,
    -8763, -8793, -8823, -8852, -8881, -8910, -8938, -8966, -8994, -9021, -9048, -9075,
    -9101, -9127, -9152, -9178, -9202, -9227, -9251, -9274, -9298, -9321, -9343, -9365,
    -9387, -9409, -9430, -9451, -9471, -9491, -9511, -9530, -9549, -9567, -9585, -9603,
    -9620, -9637, -9654, -9670, -9686, -9701, -9716, -9731, -9745, -9759, -9773, -9786,
    -9799, -9811, -9823, -9834, -9846, -9856, -9867, -9877, -9887, -9896, -9905, -9913,
    -9921, -9929, -9936, -9943, -9950, -9956, -9961, -9967, -9972, -9976, -9980, -9984,
    -9987, -9990, -9993, -9995, -9997, -9998, -9999, -10000, -10000, -10000, -9999, -9998,
    -9997, -9995, -9993, -9990, -9987, -9984, -9980, -9976, -9972, -9967, -9961, -9956,
    -9950, -9943, -9936, -9929, -9921, -9913, -9905, -9896, -9887, -9877, -9867, -9856,
    -9846, -9834, -9823, -9811, -9799, -9786, -9773, -9759, -9745, -9731, -9716, -9701,
    -9686, -9670, -9654, -9637, -9620, -9603, -9585, -9567, -9549, -9530, -9511, -9491,
    -9471, -9451, -9430, -9409, -9387, -9365, -9343, -9321, -9298, -9274, -9251, -9227,
    -9202, -9178, -9152, -9127, -9101, -9075, -9048, -9021, -8994, -8966, -8938, -8910,
    -8881, -8852, -8823, -8793, -8763, -8733, -8702, -8671, -8639, -8607, -8575, -8543,
    -8510, -8477, -8443, -8409, -8375, -8341, -8306, -8271, -8235, -8200, -8163, -8127,
    -8090, -8053, -8016, -7978, -7940, -7902, -7863, -7824, -7785, -7745, -7705, -7665,
    -7624, -7584, -7543, -7501, -7459, -7417, -7375, -7333, -7290, -7247, -7203, -7159,
    -7115, -7071, -7026, -6982, -6937, -6891, -6845, -6800, -6753, -6707, -6660, -6613,
    -6566, -6518, -6471, -6423, -6374, -6326, -6277, -6228, -6179, -6129, -6079, -6029,
    -5979, -5929, -5878, -5827, -5776, -5724, -5673, -5621, -5569, -5516, -5464, -5411,
    -5358, -5305, -5252, -5198, -5144, -5090, -5036, -4982, -4927, -4873, -4818, -4762,
    -4707, -4652, -4596, -4540, -4484, -4428, -4371, -4315, -4258, -4201, -4144, -4086,
    -4029, -3971, -3914, -3856, -3798, -3740, -3681, -3623, -3564, -3505, -3446, -3387,
    -3328, -3269, -3209, -3150, -3090, -3030, -2970, -2910, -2850, -2790, -2730, -2669,
    -2608, -2548, -2487, -2426, -2365, -2304, -2243, -2181, -2120, -2059, -1997, -1935,
    -1874, -1812, -1750, -1688, -1626, -1564, -1502, -1440, -1378, -1316, -1253, -1191,
    -1129, -1066, -1004, -941, -879, -816, -753, -691, -628, -565, -502, -440,
    -377, -314, -251, -188, -126, -63, -1, 63, 126, 188, 251, 314,
    377, 440, 502, 565, 628, 691, 753, 816, 879, 941, 1004, 1066,
    1129, 1191, 1253, 1316, 1378, 1440, 1502, 1564, 1626, 1688, 1750, 1812,
    1874, 1935, 1997, 2059, 2120, 2181, 2243, 2304, 2365, 2426, 2487, 2548,
    2608, 2669, 2730, 2790, 2850, 2910, 2970, 3030, 3090, 3150, 3209, 3269,
    3328, 3387, 3446, 3505, 3564, 3623, 3681, 3740, 3798, 3856, 3914, 3971,
    4029, 4086, 4144, 4201, 4258, 4315, 4371, 4428, 4484, 4540, 4596, 4652,
    4707, 4762, 4818, 4873, 4927, 4982, 5036, 5090, 5144, 5198, 5252, 5305,
    5358, 5411, 5464, 5516, 5569, 5621, 5673, 5724, 5776, 5827, 5878, 5929,
    5979, 6029, 6079, 6129, 6179, 6228, 6277, 6326, 6374, 6423, 6471, 6518,
    6566, 6613, 6660, 6707, 6753, 6800, 6845, 6891, 6937, 6982, 7026, 7071,
    7115, 7159, 7203, 7247, 7290, 7333, 7375, 7417, 7459, 7501, 7543, 7584,
    7624, 7665, 7705, 7745, 7785, 7824, 7863, 7902, 7940, 7978, 8016, 8053,
    8090, 8127, 8163, 8200, 8235, 8271, 8306, 8341, 8375, 8409, 8443, 8477,
    8510, 8543, 8575, 8607, 8639, 8671, 8702, 8733, 8763, 8793, 8823, 8852,
    8881, 8910, 8938, 8966, 8994, 9021, 9048, 9075, 9101, 9127, 9152, 9178,
    9202, 9227, 9251, 9274, 9298, 9321, 9343, 9365, 9387, 9409, 9430, 9451,
    9471, 9491, 9511, 9530, 9549, 9567, 9585, 9603, 9620, 9637, 9654, 9670,
    9686, 9701, 9716, 9731, 9745, 9759, 9773, 9786, 9799, 9811, 9823, 9834,
    9846, 9856, 9867, 9877, 9887, 9896, 9905, 9913, 9921, 9929, 9936, 9943,
    9950, 9956, 9961, 9967, 9972, 9976, 9980, 9984, 9987, 9990, 9993, 9995,
    9997, 9998, 9999, 10000
  >>
\* Math.log(random1) with random1 = k / 1000, in units of 10^-6.
MathLog(k) == IF k = 0 THEN NegInfinity ELSE MathLogTable[k]

\* Math.cos(2 * Math.PI * random2) with random2 = k / 1000, in units of 10^-4.
MathCosExactZero(k) == IF k \in {250, 750} THEN 0 ELSE MathCosTable[k + 1]
MathCos(k) == MathCosTable[k + 1]

RECURSIVE SqrtSearch(_, _, _)
\* The largest r in lo..hi with r * r <= n.
SqrtSearch(n, lo, hi) ==
  IF lo >= hi THEN lo
  ELSE LET mid == (lo + hi + 1) \div 2
       IN  IF mid * mid <= n THEN SqrtSearch(n, mid, hi)
           ELSE SqrtSearch(n, lo, mid - 1)

\* Math.sqrt(x): x in units of 10^-6, the result in units of 10^-4.
MathSqrt(x) ==
  IF IsNaN(x) \/ x < 0 THEN NaN
  ELSE IF x = Infinity THEN Infinity
  ELSE SqrtSearch(x * 100, 0, 2^15)

\* a * b: a and b in units of 10^-4, the result in units of 10^-6.
Times(a, b) ==
  IF IsNaN(a) \/ IsNaN(b) THEN NaN
  ELSE IF IsFinite(a) /\ IsFinite(b) THEN (a * b) \div 100
  ELSE IF a = 0 \/ b = 0 THEN NaN
  ELSE IF (a > 0) = (b > 0) THEN Infinity ELSE NegInfinity

\* -2 * x
TimesMinus2(x) ==
  IF IsNaN(x) THEN NaN
  ELSE IF x = NegInfinity THEN Infinity
  ELSE IF x = Infinity THEN NegInfinity
  ELSE -2 * x

\* normal * 1.2 + mean: normal in units of 10^-6, mean in tenths, the result
\* in units of 10^-6.
ScaleAndShift(normal, mean) ==
  IF IsFinite(normal) THEN ((normal * 12) \div 10) + mean * 10^5 ELSE normal

\* Math.round(sizeFloat * 10) / 10, as a number of tenths; sizeFloat in units
\* of 10^-6.  Math.round rounds a half up.
RoundToTenth(sizeFloat) ==
  IF IsFinite(sizeFloat) THEN ((sizeFloat * 10) + 5 * 10^5) \div 10^6 ELSE sizeFloat

(***************************************************************************)
(* seededRandom, lines 390-393 (and 1020-1023).                            *)
(***************************************************************************)
\* Math.sin(seed) to ten decimals for the seeds the usernames of the model
\* produce: sin(seed) * 10^4 = e4 + e10 / 10^6 with e4 = floor(sin(seed) * 10^4).
\* The values are those of the IEEE 754 double computation.
MathSinTable ==
  [hi |-> 0, lo |-> 0] :> [e4 |-> 0, e10 |-> 0] @@
  [hi |-> 0, lo |-> 1] :> [e4 |-> 8414, e10 |-> 709848] @@
  [hi |-> 0, lo |-> 100] :> [e4 |-> -5064, e10 |-> 343588] @@
  [hi |-> 0, lo |-> 101] :> [e4 |-> 4520, e10 |-> 257871] @@
  [hi |-> 0, lo |-> 3164] :> [e4 |-> -4043, e10 |-> 142006] @@
  [hi |-> 0, lo |-> 3165] :> [e4 |-> -9881, e10 |-> 265639] @@
  [hi |-> 0, lo |-> 3352] :> [e4 |-> 792, e10 |-> 781005] @@
  [hi |-> 0, lo |-> 3353] :> [e4 |-> -7960, e10 |-> 116535] @@
  [hi |-> 0, lo |-> 3704] :> [e4 |-> -623, e10 |-> 788004] @@
  [hi |-> 0, lo |-> 3705] :> [e4 |-> -8735, e10 |-> 412052] @@
  [hi |-> 1, lo |-> 30209] :> [e4 |-> 9685, e10 |-> 420000] @@
  [hi |-> 1, lo |-> 30210] :> [e4 |-> 3139, e10 |-> 53002] @@
  [hi |-> 1, lo |-> 33612] :> [e4 |-> -6164, e10 |-> 121002] @@
  [hi |-> 1, lo |-> 33613] :> [e4 |-> 3295, e10 |-> 743547] @@
  [hi |-> 1, lo |-> 34324] :> [e4 |-> 9725, e10 |-> 415000] @@
  [hi |-> 1, lo |-> 34325] :> [e4 |-> 7213, e10 |-> 15555] @@
  [hi |-> 1, lo |-> 36038] :> [e4 |-> 263, e10 |-> 210946] @@
  [hi |-> 1, lo |-> 36039] :> [e4 |-> 8554, e10 |-> 7968] @@
  [hi |-> 1417, lo |-> 38528] :> [e4 |-> 2745, e10 |-> 477926] @@
  [hi |-> 1417, lo |-> 38529] :> [e4 |-> 9574, e10 |-> 749676] @@
  [hi |-> 21749, lo |-> 29600] :> [e4 |-> -9927, e10 |-> 456310] @@
  [hi |-> 21749, lo |-> 29601] :> [e4 |-> -6382, e10 |-> 614192] @@
  [hi |-> 32768, lo |-> 0] :> [e4 |-> -9714, e10 |-> 898242] @@
  [hi |-> 32768, lo |-> 1] :> [e4 |-> -3247, e10 |-> 142997] @@
  \* Math.sin at the hashes of "Foo", "FOO" and "Alice" taken without the case folding of line 359
  [hi |-> 1, lo |-> 4262] :> [e4 |-> -9445, e10 |-> 177556] @@
  [hi |-> 1, lo |-> 4263] :> [e4 |-> -7868, e10 |-> 182886] @@
  [hi |-> 1, lo |-> 5286] :> [e4 |-> -8805, e10 |-> 501560] @@
  [hi |-> 1, lo |-> 5287] :> [e4 |-> -8747, e10 |-> 164584] @@
  [hi |-> 966, lo |-> 42592] :> [e4 |-> 9743, e10 |-> 725218] @@
  [hi |-> 966, lo |-> 42593] :> [e4 |-> 7157, e10 |-> 365497]
MathSin(seed) == MathSinTable[seed]

\* const x = Math.sin(seed) * 10000;
\* return Math.floor((x - Math.floor(x)) * 1000000);
\* A generator that keeps state between calls, as Math.random does.
seededRandomStateful(seed) ==
  (MathSin(seed).e10 + (371 * Len(gLog))) % 10^6
seededRandom(seed) ==
  LET x == MathSin(seed)
      floorX == x.e4
  IN  (((x.e4 - floorX) * 10^6) + x.e10)

(***************************************************************************)
(* normalDistribution, lines 373-385 (and 1003-1015).  min, max and mean   *)
(* are in tenths; the result is in units of 10^-6, or NaN.                 *)
(***************************************************************************)
\* The sample space of random1 and random2: seededRandom(..) % 1000 / 1000.
Thousand == 1000

\* Math.sqrt(-2 * Math.log(random1)) of line 378, in units of 10^-4, on the
\* value returned by seededRandom(seed).
boxMullerRadius(rnd1) == MathSqrt(TimesMinus2(MathLog(rnd1 % Thousand)))

\* The rest of lines 378-384 on the value returned by seededRandom(seed + 1).
normalFromRadiusNoClamp(radius, rnd2, min, max, mean) ==
  ScaleAndShift(Times(radius, MathCos(rnd2 % Thousand)), mean)
normalFromRadius(radius, rnd2, min, max, mean) ==
  LET normal == Times(radius, MathCos(rnd2 % Thousand))
      scaled == ScaleAndShift(normal, mean)
  IN  MathMax(min * 10^5, MathMin(max * 10^5, scaled))

\* Lines 374-384 on the two values returned by seededRandom.
normalFrom(rnd1, rnd2, min, max, mean) ==
  normalFromRadius(boxMullerRadius(rnd1), rnd2, min, max, mean)

normalDistribution(seed, min, max, mean) ==
  normalFrom(seededRandom(seed), seededRandom(WideSucc(seed)), min, max, mean)

(***************************************************************************)
(* this.humorousDescriptions, lines 21-94 (copy 1) and 684-730 (copy 2).   *)
(* Ranges are in tenths.  A description string is identified by its table, *)
(* its category (1-based) and its index in the category (0-based); the 32  *)
(* strings of copy 1, the 20 strings of copy 2 and the fallback string are *)
(* pairwise different.                                                     *)
(***************************************************************************)
Description(table, category, index) ==
  [table |-> table, category |-> category, index |-> index]

\* A category with the four descriptions every category of the file has.
Category(table, category, lo, hi) ==
  [range |-> <<lo, hi>>,
   descriptions |-> [j \in 1..4 |-> Description(table, category, j - 1)]]

\* The table with each range starting where the one before ends.
humorousDescriptions1SharedEnds ==
  << Category(1, 1, 10, 25),  Category(1, 2, 25, 40),  Category(1, 3, 40, 55),
     Category(1, 4, 55, 70),  Category(1, 5, 70, 85),  Category(1, 6, 85, 100),
     Category(1, 7, 100, 115), Category(1, 8, 115, 130) >>

humorousDescriptions1 ==
  << Category(1, 1, 10, 25),  Category(1, 2, 26, 40),  Category(1, 3, 41, 55),
     Category(1, 4, 56, 70),  Category(1, 5, 71, 85),  Category(1, 6, 86, 100),
     Category(1, 7, 101, 115), Category(1, 8, 116, 130) >>

humorousDescriptions2 ==
  << Category(2, 1, 30, 40),  Category(2, 2, 41, 55),  Category(2, 3, 56, 70),
     Category(2, 4, 71, 85),  Category(2, 5, 86, 100) >>

humorousDescriptions(cp) ==
  IF cp = 1 THEN humorousDescriptions1 ELSE humorousDescriptions2

\* "You're absolutely unique and that's what makes you special!"
FallbackDescription == Description(0, 0, 0)

\* The bounds passed to normalDistribution (lines 329 and 964), in tenths.
MinSizeSecondFour(cp) == IF cp = 1 THEN 10 ELSE 40
MinSize(cp) == IF cp = 1 THEN 10 ELSE 30
MaxSize(cp) == IF cp = 1 THEN 130 ELSE 100
MeanSize == 65

(***************************************************************************)
(* getDescriptionForSize, lines 425-435 (and 1028-1038).  size in tenths.  *)
(***************************************************************************)
\* size >= category.range[0] && size <= category.range[1]; false for NaN.
InRangeExclusive(size, range) == ~IsNaN(size) /\ size > range[1] /\ size < range[2]
InRange(size, range) == ~IsNaN(size) /\ size >= range[1] /\ size <= range[2]

\* The value undefined, and array[index] for an integer index: undefined
\* outside 0..length-1.
Undefined == [undefined |-> TRUE]
ArrayGet(array, index) ==
  IF index \in 0..(Len(array) - 1) THEN array[index + 1] ELSE Undefined

\* const index = hash % category.descriptions.length;
\* return category.descriptions[index];
PickDescriptionShort(category, hash) ==
  category.descriptions[WideMod(hash, Len(category.descriptions) - 1) + 1]
PickDescriptionModFive(category, hash) ==
  ArrayGet(category.descriptions, WideMod(hash, 5))
PickDescription(category, hash) ==
  ArrayGet(category.descriptions, WideMod(hash, Len(category.descriptions)))

RECURSIVE ScanCategories(_, _, _, _)
\* The for-of loop from the i-th category on.
ScanCategories(categories, i, size, hash) ==
  IF i > Len(categories) THEN FallbackDescription
  ELSE IF InRange(size, categories[i].range) THEN PickDescription(categories[i], hash)
  ELSE ScanCategories(categories, i + 1, size, hash)

getDescriptionForSize(cp, size, hash) ==
  ScanCategories(humorousDescriptions(cp), 1, size, hash)

(***************************************************************************)
(* calculatePercentile, lines 399-420 (copy 1 only).  size in tenths.      *)
(***************************************************************************)
\* zScore = (size - 6.5) / 2, so zScore <= -3 is size <= 0.5 and zScore >= 3
\* is size >= 12.5; 50 + zScore * 16.67 = 50 + (size10 - 65) * 1667 / 2000,
\* and Math.round rounds a half up.
calculatePercentileUnclamped(size) ==
  IF IsNaN(size) THEN NaN
  ELSE (((50 * 2000) + ((size - MeanSize) * 1667)) + 1000) \div 2000
calculatePercentile(size) ==
  IF IsNaN(size) THEN NaN
  ELSE IF size <= MeanSize - 60 THEN 1
  ELSE IF size >= MeanSize + 60 THEN 99
  ELSE LET percentile == (((50 * 2000) + ((size - MeanSize) * 1667)) + 1000) \div 2000
       IN  MathMax(1, MathMin(99, percentile))

(***************************************************************************)
(* generateResults, lines 325-352 (and 960-982).                           *)
(***************************************************************************)
\* Math.round(size * 2.54 * 10) / 10 in tenths; Math.round rounds a half up.
ToCentimetresHalfDown(size) ==
  IF IsFinite(size) THEN ((size * 254) + 49) \div 100 ELSE size
ToCentimetres(size) ==
  IF IsFinite(size) THEN ((size * 254) + 50) \div 100 ELSE size

\* hash % 10 === 0
useMetricOfHundred(hash) == WideMod(hash, 100) = 0
useMetricOf(hash) == WideMod(hash, 10) = 0

\* Math.floor(75 + (hash % 25))
confidenceOfMod26(hash) == 75 + WideMod(hash, 26)
confidenceOf(hash) == 75 + WideMod(hash, 25)

\* Lines 333-351 (968-981): the record returned for the locals hash and size.
resultsOfDisplayedPercentile(cp, hash, size) ==
  LET shown == IF useMetricOf(hash) THEN ToCentimetres(size) ELSE size
  IN  IF cp = 1
      THEN [size |-> shown,
            originalSize |-> size,
            unit |-> IF useMetricOf(hash) THEN "cm" ELSE "inches",
            confidence |-> confidenceOf(hash),
            description |-> getDescriptionForSize(cp, size, hash),
            percentile |-> calculatePercentile(shown)]
      ELSE [size |-> shown,
            unit |-> IF useMetricOf(hash) THEN "cm" ELSE "inches",
            confidence |-> confidenceOf(hash),
            description |-> getDescriptionForSize(cp, size, hash)]
resultsOf(cp, hash, size) ==
  LET confidence == confidenceOf(hash)
      description == getDescriptionForSize(cp, size, hash)
      useMetric == useMetricOf(hash)
  IN  IF cp = 1
      THEN [size |-> IF useMetric THEN ToCentimetres(size) ELSE size,
            originalSize |-> size,
            unit |-> IF useMetric THEN "cm" ELSE "inches",
            confidence |-> confidence,
            description |-> description,
            percentile |-> calculatePercentile(size)]
      ELSE [size |-> IF useMetric THEN ToCentimetres(size) ELSE size,
            unit |-> IF useMetric THEN "cm" ELSE "inches",
            confidence |-> confidence,
            description |-> description]

\* Lines 329-330 (964-965) on the radius and the second value of seededRandom.
sizeFromRadius(cp, radius, rnd2) ==
  RoundToTenth(normalFromRadius(radius, rnd2, MinSize(cp), MaxSize(cp), MeanSize))

\* Lines 326-330: the locals hash and size of generateResults(username).
hashOf(username) == hashUsername(username)
sizeOf(cp, hash) ==
  RoundToTenth(normalDistribution(hash, MinSize(cp), MaxSize(cp), MeanSize))

generateResults(cp, username) ==
  resultsOf(cp, hashOf(username), sizeOf(cp, hashOf(username)))

(***************************************************************************)
(* The page: handleFormSubmit, showError, performAnalysis, displayResults,  *)
(* resetToInitialState, showSection and delay, lines 243-320 and 440-553    *)
(* (878-959 and 1043-1147 in the second copy, which differs only in not     *)
(* displaying a percentile).                                                *)
(***************************************************************************)
\* The value null.
Null == [null |-> TRUE]

\* The sections of showSection, line 507.
Sections == {"input", "loading", "results"}
Modals == {"about", "privacy"}

\* this.loadingMessages, lines 11-19: the seven messages, by position.
loadingMessages == [i \in 1..7 |-> i]

\* String.prototype.trim on code units: white space is the space, the tab,
\* the line feed and the carriage return here.
WhiteSpace == {32, 9, 10, 13}
RECURSIVE trimStart(_)
trimStart(s) ==
  IF Len(s) > 0 /\ Head(s) \in WhiteSpace THEN trimStart(Tail(s)) ELSE s
RECURSIVE trimEnd(_)
trimEnd(s) ==
  IF Len(s) > 0 /\ s[Len(s)] \in WhiteSpace THEN trimEnd(SubSeq(s, 1, Len(s) - 1)) ELSE s
trim(s) == trimEnd(trimStart(s))

\* showSection(section), lines 506-517: 'hidden' is removed from the section
\* named and added to the other two.
showSectionOnlyHides(section) == [s \in Sections |-> TRUE]
showSectionKeepsOthers(section) ==
  [s \in Sections |-> IF s = section THEN FALSE ELSE sectionHidden[s]]
showSection(section) == [s \in Sections |-> s # section]

\* The sections whose classList does not hold 'hidden'.
VisibleSections == {s \in Sections : ~sectionHidden[s]}

\* setTimeout(callback, ms) on the list of pending timers: the new timer
\* comes due after every timer that is due at the same time or earlier.
RECURSIVE InsertTimer(_, _)
InsertTimer(ts, timer) ==
  IF Len(ts) = 0 THEN <<timer>>
  ELSE IF Head(ts).remaining <= timer.remaining
       THEN <<Head(ts)>> \o InsertTimer(Tail(ts), timer)
       ELSE <<timer>> \o ts
setTimeout(ts, kind, data, ms) ==
  InsertTimer(ts, [kind |-> kind, remaining |-> ms, data |-> data])

\* The values of this.elements.confidenceFill.style.width: '' before any
\* assignment, '0' (line 491) and `${results.confidence}%` (line 458).
WidthUnset == [number |-> 0, text |-> ""]
WidthZero == [number |-> 0, text |-> "0"]
WidthPercent(confidence) == [number |-> confidence, text |-> "%"]

\* The messages of showError, lines 247 and 254.
MessageInvalid == "Please enter a valid Twitter username"
MessageFailed == "Oops! Something went wrong. Please try again."

\* The delays of lines 284-288, 292-294 and 457-459, in milliseconds.
ErrorDisplayTime == 5000
ShakeTime == 500
ConfidenceDelay == 500

\* getRandomDelay(3000, 6000), lines 544-546: the total times drawn here are
\* multiples of the number of steps, so that stepTime is a whole number.
TotalTimes == {3003, 5999}

(***************************************************************************)
(* Inputs.                                                                 *)
(***************************************************************************)
\* "A", "Z", "a", "z", "0", "_", and two characters no username may hold: "@", " ".
HashChars == {65, 90, 97, 122, 48, 95, 64, 32}

RECURSIVE StringsOfLen(_)
StringsOfLen(n) ==
  IF n = 0 THEN {<<>>}
  ELSE {Append(s, c) : s \in StringsOfLen(n - 1), c \in HashChars}

\* "xfjfxtf" and "XfJfXtF": the accumulator of hashUsername ends at -2^31.
NameMinInt == <<120, 102, 106, 102, 120, 116, 102>>
NameMinIntMixed == <<88, 102, 74, 102, 88, 116, 70>>
\* "aaaaaa": the accumulator ends negative (-1425372064).
NameNegative == <<97, 97, 97, 97, 97, 97>>
\* "Foo", "foo", "FOO": hash 101574.
NameFooMixed == <<70, 111, 111>>
NameFooLower == <<102, 111, 111>>
NameFooUpper == <<70, 79, 79>>
\* "alice", "Alice": hash 92903040, divisible by 10.
NameAlice == <<97, 108, 105, 99, 101>>
NameAliceMixed == <<65, 108, 105, 99, 101>>
\* "d": hash 100, divisible by 10 and by 25.
NameD == <<100>>
\* "ia": hash 3352, measurement 2.7 before the clamp of copy 2.
NameIa == <<105, 97>>
\* "tl": hash 3704, measurement 10.3 before the clamp of copy 2.
NameTl == <<116, 108>>
\* "b10": hash 95745, seededRandom(hash) % 1000 = 0 and a positive cosine.
NameB10 == <<98, 49, 48>>
\* "dvf": hash 99860, seededRandom(hash) % 1000 = 0 and a negative cosine.
NameDvf == <<100, 118, 102>>
\* "d_g", "c_": measurements 2.5 and 4.0, the upper ends of two categories.
NameD_g == <<100, 95, 103>>
NameC_ == <<99, 95>>

HashInputs ==
  UNION {StringsOfLen(n) : n \in 0..MaxLen}
    \cup {NameMinInt, NameMinIntMixed, NameNegative}

\* The usernames submitted to generateResults; MathSinTable holds their seeds.
Usernames ==
  {NameFooMixed, NameFooLower, NameFooUpper, NameAlice, NameAliceMixed, NameD,
   NameIa, NameTl, NameB10, NameDvf, NameMinInt, NameNegative,
   NameD_g, NameC_}

\* Sizes (in tenths, and NaN) and hashes given to getDescriptionForSize.
CatSizes == (0..MaxTenths) \cup {NaN}
CatHashes ==
  {[hi |-> 0, lo |-> 0], [hi |-> 0, lo |-> 1], [hi |-> 0, lo |-> 2],
   [hi |-> 0, lo |-> 3], [hi |-> 1417, lo |-> 38528], [hi |-> 2^15, lo |-> 0]}

(***************************************************************************)
(* Initial values of the variables a specification does not use.           *)
(***************************************************************************)
HashIdle ==
  /\ hUsername = <<>>
  /\ hStr = <<>>
  /\ hI = 0
  /\ hHash = 0
  /\ hPc = "idle"
  /\ hRet = NoValue

DistIdle ==
  /\ dRnd1 = NoValue

NormIdle ==
  /\ dSeed = NoValue
  /\ dRnd2 = NoValue
  /\ dNormal = NoValue
  /\ dScaled = NoValue
  /\ dRet = NoValue
  /\ dPc = "idle"

GenIdle ==
  /\ gUsername = <<>>
  /\ gHash = NoValue
  /\ gSize = 0
  /\ gResult = NoValue
  /\ gPc = "idle"
  /\ gLog = <<>>

CatIdle ==
  /\ cSize = 0
  /\ cHash = NoValue
  /\ cI = 0
  /\ cPc = "idle"
  /\ cRet = NoValue

PctIdle ==
  /\ pSize = 0
  /\ pPc = "idle"
  /\ pRet = NoValue

\* The page as loaded, before any event: the input section is the visible one.
ShareIdle == shareWindows = <<>>
ModalIdle ==
  /\ modalHidden = [m \in Modals |-> TRUE]
  /\ bodyOverflow = ""
  /\ focused = ""
  /\ modalEvents = <<>>
FormatIdle ==
  /\ fInput = <<>>
  /\ fValue = <<>>
  /\ fWrapper = {}
  /\ fHistory = <<>>
BothIdle ==
  /\ bInput = NoValue
  /\ bResults = NoValue
PageIdle ==
  /\ ShareIdle
  /\ ModalIdle
  /\ FormatIdle
  /\ BothIdle
UiIdle ==
  /\ inputValue = <<>>
  /\ inputAnimation = ""
  /\ sectionHidden = [s \in Sections |-> s # "input"]
  /\ loadingMessage = 0
  /\ resultText = NoValue
  /\ confidenceWidth = WidthUnset
  /\ currentResults = Undefined
  /\ errorElement = Null
  /\ errorsCreated = 0
  /\ timers = <<>>
  /\ events = 0
  /\ lastEvent = Null
  /\ started = <<>>
  /\ completed = <<>>
  /\ lastCall = "none"

(***************************************************************************)
(* Specification SpecHash: hashUsername run statement by statement on      *)
(* every string of HashInputs.                                             *)
(***************************************************************************)
InitHash ==
  /\ UiIdle
  /\ PageIdle
  /\ copy \in {1, 2}
  /\ DistIdle
  /\ GenIdle
  /\ CatIdle
  /\ PctIdle
  /\ NormIdle
  /\ hUsername \in HashInputs
  /\ hStr = <<>>
  /\ hI = 0
  /\ hHash = 0
  /\ hPc = "entry"
  /\ hRet = NoValue

\* Lines 358-359: let hash = 0; const str = username.toLowerCase();
HashEnter ==
  /\ hPc = "entry"
  /\ hHash' = 0
  /\ hStr' = toLowerCase(hUsername)
  /\ hI' = 0
  /\ hPc' = "loop"
  /\ UNCHANGED <<copy, uiVars, pageVars, hUsername, hRet, distVars, genVars, catVars, pctVars, normVars>>

\* Lines 361-365: one iteration of the for loop.
HashIterate ==
  /\ hPc = "loop"
  /\ hI < Len(hStr)
  /\ hHash' = HashStep(hHash, hStr[hI + 1])
  /\ hI' = hI + 1
  /\ UNCHANGED <<copy, uiVars, pageVars, hUsername, hStr, hPc, hRet, distVars, genVars, catVars, pctVars, normVars>>

\* Line 367: return Math.abs(hash);
HashReturn ==
  /\ hPc = "loop"
  /\ ~(hI < Len(hStr))
  /\ hRet' = MathAbs(hHash)
  /\ hPc' = "done"
  /\ UNCHANGED <<copy, uiVars, pageVars, hUsername, hStr, hI, hHash, distVars, genVars, catVars, pctVars, normVars>>

NextHash == HashEnter \/ HashIterate \/ HashReturn

SpecHash == InitHash /\ [][NextHash]_vars

(***************************************************************************)
(* Specification SpecGen: up to MaxCalls calls of generateResults, each    *)
(* with any username of Usernames, on one instance of the class.           *)
(***************************************************************************)
InitGen ==
  /\ UiIdle
  /\ PageIdle
  /\ copy \in {1, 2}
  /\ HashIdle
  /\ DistIdle
  /\ CatIdle
  /\ PctIdle
  /\ NormIdle
  /\ GenIdle

\* generateResults(username), lines 325-352 (960-982): a synchronous call.
Generate ==
  /\ Len(gLog) < MaxCalls
  /\ \E username \in Usernames :
       /\ gUsername' = username
       /\ gHash' = hashOf(username)
       /\ gSize' = sizeOf(copy, gHash')
       /\ gResult' = resultsOf(copy, gHash', gSize')
       /\ dRnd1' = seededRandom(gHash')
       /\ gLog' = Append(gLog, [username |-> username, hash |-> gHash',
                                size |-> gSize', result |-> gResult'])
  /\ gPc' = "returned"
  /\ UNCHANGED <<copy, uiVars, pageVars, hashVars, catVars, pctVars, normVars>>

NextGen == Generate

SpecGen == InitGen /\ [][NextGen]_vars

(***************************************************************************)
(* Specification SpecCat: getDescriptionForSize run statement by statement *)
(* on every size of CatSizes and every hash of CatHashes.                  *)
(***************************************************************************)
InitCat ==
  /\ UiIdle
  /\ PageIdle
  /\ copy \in {1, 2}
  /\ PctIdle
  /\ NormIdle
  /\ HashIdle
  /\ DistIdle
  /\ GenIdle
  /\ cSize \in CatSizes
  /\ cHash \in CatHashes
  /\ cI = 1
  /\ cPc = "scan"
  /\ cRet = NoValue

\* Line 427 false: the loop goes on to the next category.
CatSkip ==
  /\ cPc = "scan"
  /\ cI <= Len(humorousDescriptions(copy))
  /\ ~InRange(cSize, humorousDescriptions(copy)[cI].range)
  /\ cI' = cI + 1
  /\ UNCHANGED <<copy, uiVars, pageVars, hashVars, distVars, genVars, pctVars, normVars, cSize, cHash, cPc, cRet>>

\* Lines 427-430: the category contains size; its description is returned.
CatMatch ==
  /\ cPc = "scan"
  /\ cI <= Len(humorousDescriptions(copy))
  /\ InRange(cSize, humorousDescriptions(copy)[cI].range)
  /\ cRet' = PickDescription(humorousDescriptions(copy)[cI], cHash)
  /\ cPc' = "done"
  /\ UNCHANGED <<copy, uiVars, pageVars, hashVars, distVars, genVars, pctVars, normVars, cSize, cHash, cI>>

\* Line 434: the loop is over; the fallback description is returned.
CatFallback ==
  /\ cPc = "scan"
  /\ cI > Len(humorousDescriptions(copy))
  /\ cRet' = FallbackDescription
  /\ cPc' = "done"
  /\ UNCHANGED <<copy, uiVars, pageVars, hashVars, distVars, genVars, pctVars, normVars, cSize, cHash, cI>>

NextCat == CatSkip \/ CatMatch \/ CatFallback

SpecCat == InitCat /\ [][NextCat]_vars

(***************************************************************************)
(* Specification SpecDist: generateResults on every pair of residues that  *)
(* the two calls of seededRandom can leave after "% 1000" (lines 374-375), *)
(* whatever Math.sin returns for the hash.                                 *)
(***************************************************************************)
\* One value of 0..999999 for each residue modulo 1000.
DistRandoms == {(Thousand * ((Thousand - 1) - k)) + k : k \in 0..(Thousand - 1)}

\* The hash that goes with a first drawn value: a sample of the hashes.
DistHash(rnd1) == [hi |-> rnd1 \div Limb, lo |-> rnd1 % Limb]

InitDist ==
  /\ UiIdle
  /\ PageIdle
  /\ copy \in {1, 2}
  /\ HashIdle
  /\ DistIdle
  /\ CatIdle
  /\ PctIdle
  /\ NormIdle
  /\ gUsername = <<>>
  /\ gHash = NoValue
  /\ gSize = 0
  /\ gResult = NoValue
  /\ gPc = "called"
  /\ gLog = <<>>

\* Lines 326-351 with the two results of seededRandom drawn.  The radius
\* Math.sqrt(-2 * Math.log(random1)) is computed once for each first value.
GenerateFromRandoms ==
  /\ gPc = "called"
  /\ \E rnd1 \in DistRandoms :
     \E radius \in {boxMullerRadius(rnd1)} :
       \E rnd2 \in DistRandoms :
         /\ dRnd1' = rnd1
         /\ gHash' = DistHash(rnd1)
         /\ gSize' = sizeFromRadius(copy, radius, rnd2)
         /\ gResult' = resultsOf(copy, gHash', gSize')
  /\ gPc' = "returned"
  /\ UNCHANGED <<copy, uiVars, pageVars, hashVars, catVars, pctVars, normVars, gUsername, gLog>>

NextDist == GenerateFromRandoms

SpecDist == InitDist /\ [][NextDist]_vars

(***************************************************************************)
(* Specification SpecRecord: lines 332-351 (967-981) of generateResults on *)
(* every size that line 330 can leave (a whole number of tenths within     *)
(* [MIN, MAX]) and every hash of CatHashes.                                *)
(***************************************************************************)
InitRecord ==
  /\ UiIdle
  /\ PageIdle
  /\ copy \in {1, 2}
  /\ HashIdle
  /\ DistIdle
  /\ CatIdle
  /\ PctIdle
  /\ NormIdle
  /\ gUsername = <<>>
  /\ gHash \in CatHashes
  /\ gSize \in MinSize(copy)..MaxSize(copy)
  /\ gResult = NoValue
  /\ gPc = "called"
  /\ gLog = <<>>

\* Lines 332-351: confidence, description, percentile, unit and the record.
BuildRecord ==
  /\ gPc = "called"
  /\ gResult' = resultsOf(copy, gHash, gSize)
  /\ gPc' = "returned"
  /\ UNCHANGED <<copy, uiVars, pageVars, hashVars, distVars, catVars, pctVars, normVars, gUsername, gHash, gSize, gLog>>

NextRecord == BuildRecord

SpecRecord == InitRecord /\ [][NextRecord]_vars

(***************************************************************************)
(* Specification SpecPct: calculatePercentile (copy 1) on every size of    *)
(* CatSizes.                                                               *)
(***************************************************************************)
InitPct ==
  /\ UiIdle
  /\ PageIdle
  /\ copy = 1
  /\ NormIdle
  /\ HashIdle
  /\ DistIdle
  /\ GenIdle
  /\ CatIdle
  /\ pSize \in CatSizes
  /\ pPc = "called"
  /\ pRet = NoValue

\* calculatePercentile(size), lines 399-420.
Percentile ==
  /\ pPc = "called"
  /\ pRet' = calculatePercentile(pSize)
  /\ pPc' = "returned"
  /\ UNCHANGED <<copy, uiVars, pageVars, hashVars, distVars, normVars, genVars, catVars, pSize>>

NextPct == Percentile

SpecPct == InitPct /\ [][NextPct]_vars

(***************************************************************************)
(* Specification SpecNormal: normalDistribution run statement by statement *)
(* with the arguments generateResults passes (min, max and mean of the     *)
(* loaded copy).  The seed is one of NormalSeeds, or a seed Math.sin is    *)
(* not tabulated for, whose two values of seededRandom are then drawn.     *)
(***************************************************************************)
\* A seed outside MathSinTable.
OtherSeed == [other |-> TRUE]

\* The seed 0 and the hashes of "d", "foo", "b10" and "dvf".
NormalSeeds ==
  {[hi |-> 0, lo |-> 0], [hi |-> 0, lo |-> 100], [hi |-> 1, lo |-> 36038],
   [hi |-> 1, lo |-> 30209], [hi |-> 1, lo |-> 34324]}

\* The residues of seededRandom(seed) % 1000 drawn for a seed outside the
\* table: 0 (random1 = 0), 1 (the largest finite radius), 999 (the smallest
\* radius) and two in between.
NormalResidues == {0, 1, 135, 607, 999}

InitNormal ==
  /\ UiIdle
  /\ PageIdle
  /\ copy \in {1, 2}
  /\ HashIdle
  /\ GenIdle
  /\ CatIdle
  /\ PctIdle
  /\ dSeed \in NormalSeeds \cup {OtherSeed}
  /\ dRnd1 = NoValue
  /\ dRnd2 = NoValue
  /\ dNormal = NoValue
  /\ dScaled = NoValue
  /\ dRet = NoValue
  /\ dPc = "called"

\* Lines 374-375: the two calls of seededRandom.
NormalSample ==
  /\ dPc = "called"
  /\ dSeed \in NormalSeeds
  /\ dRnd1' = seededRandom(dSeed)
  /\ dRnd2' = seededRandom(WideSucc(dSeed))
  /\ dPc' = "sampled"
  /\ UNCHANGED <<copy, uiVars, pageVars, hashVars, genVars, catVars, pctVars, dSeed, dNormal, dScaled, dRet>>

\* Lines 374-375 for a seed outside the table: seededRandom returns integers
\* of 0..999999, of which only the residues modulo 1000 are used.
NormalSampleOther ==
  /\ dPc = "called"
  /\ dSeed = OtherSeed
  /\ \E rnd1 \in {r \in DistRandoms : r % Thousand \in NormalResidues} :
     \E rnd2 \in DistRandoms :
       /\ dRnd1' = rnd1
       /\ dRnd2' = rnd2
  /\ dPc' = "sampled"
  /\ UNCHANGED <<copy, uiVars, pageVars, hashVars, genVars, catVars, pctVars, dSeed, dNormal, dScaled, dRet>>

\* Line 378: Math.sqrt(-2 * Math.log(random1)) * Math.cos(2 * Math.PI * random2)
NormalBoxMuller ==
  /\ dPc = "sampled"
  /\ dNormal' = Times(boxMullerRadius(dRnd1), MathCos(dRnd2 % Thousand))
  /\ dPc' = "normal"
  /\ UNCHANGED <<copy, uiVars, pageVars, hashVars, genVars, catVars, pctVars, dSeed, dRnd1, dRnd2, dScaled, dRet>>

\* Line 381: const scaled = normal * 1.2 + mean;
NormalScale ==
  /\ dPc = "normal"
  /\ dScaled' = ScaleAndShift(dNormal, MeanSize)
  /\ dPc' = "scaled"
  /\ UNCHANGED <<copy, uiVars, pageVars, hashVars, genVars, catVars, pctVars, dSeed, dRnd1, dRnd2, dNormal, dRet>>

\* Line 384: return Math.max(min, Math.min(max, scaled));
NormalClamp ==
  /\ dPc = "scaled"
  /\ dRet' = MathMax(MinSize(copy) * 10^5, MathMin(MaxSize(copy) * 10^5, dScaled))
  /\ dPc' = "returned"
  /\ UNCHANGED <<copy, uiVars, pageVars, hashVars, genVars, catVars, pctVars, dSeed, dRnd1, dRnd2, dNormal, dScaled>>

NextNormal ==
  NormalSample \/ NormalSampleOther \/ NormalBoxMuller \/ NormalScale \/ NormalClamp

SpecNormal == InitNormal /\ [][NextNormal]_vars

(***************************************************************************)
(* Specification SpecUi: the page under submit events, clicks on "try      *)
(* again" and the passing of time.  The event listeners of lines 131-144   *)
(* stay attached in every state, so the events are taken at any time,      *)
(* also while an analysis is waiting for a delay.                          *)
(***************************************************************************)
\* " Alice " (to be trimmed) and "@d".
InputAlicePadded == <<32>> \o NameAliceMixed \o <<32>>
InputAtD == <<64, 100>>

\* The values the username field holds when the form is submitted: "foo",
\* " Alice ", "" and "@d".
UiInputs == {NameFooLower, InputAlicePadded, <<>>, InputAtD}

OtherVars ==
  <<copy, hashVars, distVars, normVars, catVars, pctVars, gUsername, gHash, gSize, gResult,
    gPc, pageVars>>

InitUi ==
  /\ copy \in {1, 2}
  /\ HashIdle
  /\ DistIdle
  /\ NormIdle
  /\ GenIdle
  /\ CatIdle
  /\ PctIdle
  /\ UiIdle
  /\ PageIdle

\* showError(message), lines 262-295: the element is created unless the
\* document holds one, its text is set, and two timers are started.
showErrorWith(ts, message) ==
  /\ errorElement' =
       IF errorElement = Null
       THEN [id |-> errorsCreated + 1, textContent |-> message]
       ELSE [errorElement EXCEPT !.textContent = message]
  /\ errorsCreated' = IF errorElement = Null THEN errorsCreated + 1 ELSE errorsCreated
  /\ inputAnimation' = "shake 0.5s ease-out"
  /\ timers' = setTimeout(setTimeout(ts, "removeError",
                                     [element |-> errorElement'.id], ErrorDisplayTime),
                          "clearAnimation", NoValue, ShakeTime)
showError(message) == showErrorWith(timers, message)

\* analysisSteps of line 305.
analysisStepsOneShort == Len(loadingMessages) - 1
analysisSteps == Len(loadingMessages)

\* A submit event, lines 243-249, with the field holding value: the trimmed
\* value is no valid username.
SubmitInvalid ==
  /\ events < MaxEvents
  /\ \E value \in UiInputs :
       /\ inputValue' = value
       /\ ~isValidUsername(trim(value))
       /\ lastEvent' = [type |-> "submit", value |-> value]
  /\ showError(MessageInvalid)
  /\ events' = events + 1
  /\ UNCHANGED <<OtherVars, lastCall, gLog, sectionHidden, loadingMessage, resultText,
                 confidenceWidth, currentResults, started, completed>>

\* A submit event with the field holding a valid username, lines 243-252 and
\* performAnalysis up to its first await (lines 300-311): the loading section
\* is shown, the first message displayed and the first delay started.
SubmitValid ==
  /\ events < MaxEvents
  /\ \E value \in UiInputs :
     \E totalTime \in TotalTimes :
       LET username == trim(value)
           stepTime == totalTime \div analysisSteps
       IN  /\ inputValue' = value
           /\ lastEvent' = [type |-> "submit", value |-> value]
           /\ isValidUsername(username)
           /\ sectionHidden' = showSection("loading")
           /\ loadingMessage' = loadingMessages[1]
           /\ timers' = setTimeout(timers, "delay",
                                   [call |-> Len(started) + 1, username |-> username,
                                    i |-> 0, stepTime |-> stepTime,
                                    shown |-> <<loadingMessages[1]>>],
                                   stepTime)
           /\ started' = Append(started, username)
  /\ events' = events + 1
  /\ UNCHANGED <<OtherVars, lastCall, gLog, inputAnimation, resultText, confidenceWidth,
                 currentResults, errorElement, errorsCreated, completed>>

\* The timer that is due now, if any: the first of the list.
TimerDue(kind) ==
  /\ Len(timers) > 0
  /\ Head(timers).remaining = 0
  /\ Head(timers).kind = kind

\* A delay of performAnalysis is over and the loop goes on, lines 309-312:
\* the next message is displayed and the next delay started.
DelayContinues ==
  /\ TimerDue("delay")
  /\ LET data == Head(timers).data
         i == data.i + 1
     IN  /\ i < analysisSteps
         /\ loadingMessage' = loadingMessages[i + 1]
         /\ timers' = setTimeout(Tail(timers), "delay",
                                 [data EXCEPT !.i = i,
                                              !.shown = Append(@, loadingMessages[i + 1])],
                                 data.stepTime)
  /\ UNCHANGED <<OtherVars, lastCall, gLog, inputValue, inputAnimation, sectionHidden, resultText,
                 confidenceWidth, currentResults, errorElement, errorsCreated,
                 events, lastEvent, started, completed>>

\* displayResults(username, results), lines 440-463, on the result elements.
displayedTextKeepsUsername(cp, username, results) ==
  LET shownAs == IF resultText = NoValue THEN <<64>> \o username ELSE resultText.username
  IN  IF cp = 1
      THEN [username |-> shownAs, size |-> results.size, unit |-> results.unit,
            description |-> results.description, confidence |-> results.confidence,
            percentile |-> results.percentile]
      ELSE [username |-> shownAs, size |-> results.size, unit |-> results.unit,
            description |-> results.description, confidence |-> results.confidence]
displayedText(cp, username, results) ==
  IF cp = 1
  THEN [username |-> <<64>> \o username, size |-> results.size, unit |-> results.unit,
        description |-> results.description, confidence |-> results.confidence,
        percentile |-> results.percentile]
  ELSE [username |-> <<64>> \o username, size |-> results.size, unit |-> results.unit,
        description |-> results.description, confidence |-> results.confidence]

\* { username, ...results } of line 462.
storedResults(username, results) == [username |-> username] @@ results

\* Line 315: const results = this.generateResults(username), with the locals of the
\* call.  generateResults reads nothing but its argument, so the calls for the
\* usernames of Usernames are tabulated once.
generateResultsCall(cp, username) ==
  LET hash == hashOf(username)
      size == sizeOf(cp, hash)
  IN  [hash |-> hash, size |-> size, result |-> resultsOf(cp, hash, size)]
generateResultsTable ==
  [cp \in {1, 2}, username \in Usernames |-> generateResultsCall(cp, username)]
performGenerateResults(cp, username) ==
  IF username \in Usernames
  THEN generateResultsTable[cp, username]
  ELSE generateResultsCall(cp, username)

\* The last delay of performAnalysis is over, lines 309-319: the loop ends,
\* generateResults is called, displayResults writes the result and starts the
\* timer of the confidence bar, and the results section is shown.
DelayFinishes ==
  /\ TimerDue("delay")
  /\ LET data == Head(timers).data
         i == data.i + 1
     IN  /\ ~(i < analysisSteps)
         /\ \E call \in {performGenerateResults(copy, data.username)} :
              /\ gLog' = Append(gLog, [username |-> data.username, hash |-> call.hash,
                                       size |-> call.size, result |-> call.result])
              /\ resultText' = displayedText(copy, data.username, call.result)
              /\ timers' = setTimeout(Tail(timers), "confidence",
                                      [confidence |-> call.result.confidence],
                                      ConfidenceDelay)
              /\ currentResults' = storedResults(data.username, call.result)
         /\ sectionHidden' = showSection("results")
         /\ completed' = Append(completed, [call |-> data.call, username |-> data.username,
                                            shown |-> data.shown, delays |-> i])
  /\ lastCall' = "displayResults"
  /\ UNCHANGED <<OtherVars, inputValue, inputAnimation, loadingMessage, confidenceWidth,
                 errorElement, errorsCreated, events, lastEvent, started>>

\* The timer of lines 457-459: the confidence bar gets its width.
ConfidenceShown ==
  /\ TimerDue("confidence")
  /\ confidenceWidth' = WidthPercent(Head(timers).data.confidence)
  /\ timers' = Tail(timers)
  /\ UNCHANGED <<OtherVars, lastCall, gLog, inputValue, inputAnimation, sectionHidden, loadingMessage,
                 resultText, currentResults, errorElement, errorsCreated,
                 events, lastEvent, started, completed>>

\* The timer of lines 284-288: the element is removed if it is still in the
\* document.
ErrorRemoved ==
  /\ TimerDue("removeError")
  /\ errorElement' =
       IF errorElement # Null /\ errorElement.id = Head(timers).data.element
       THEN Null ELSE errorElement
  /\ timers' = Tail(timers)
  /\ UNCHANGED <<OtherVars, lastCall, gLog, inputValue, inputAnimation, sectionHidden, loadingMessage,
                 resultText, confidenceWidth, currentResults, errorsCreated,
                 events, lastEvent, started, completed>>

\* The timer of lines 292-294: the shake animation is cleared.
AnimationCleared ==
  /\ TimerDue("clearAnimation")
  /\ inputAnimation' = ""
  /\ timers' = Tail(timers)
  /\ UNCHANGED <<OtherVars, lastCall, gLog, inputValue, sectionHidden, loadingMessage, resultText,
                 confidenceWidth, currentResults, errorElement, errorsCreated,
                 events, lastEvent, started, completed>>

\* A click on "try again": resetToInitialState, lines 485-501.
TryAgainKeepsError ==
  /\ events < MaxEvents
  /\ inputValue' = <<>>
  /\ sectionHidden' = showSection("input")
  /\ confidenceWidth' = WidthZero
  /\ currentResults' = Null
  /\ events' = events + 1
  /\ lastEvent' = [type |-> "tryAgain"]
  /\ lastCall' = "resetToInitialState"
  /\ UNCHANGED <<OtherVars, gLog, inputAnimation, loadingMessage, resultText,
                 errorElement, errorsCreated, timers, started, completed>>
TryAgain ==
  /\ events < MaxEvents
  /\ inputValue' = <<>>
  /\ sectionHidden' = showSection("input")
  /\ confidenceWidth' = WidthZero
  /\ currentResults' = Null
  /\ errorElement' = Null
  /\ events' = events + 1
  /\ lastEvent' = [type |-> "tryAgain"]
  /\ lastCall' = "resetToInitialState"
  /\ UNCHANGED <<OtherVars, gLog, inputAnimation, loadingMessage, resultText,
                 errorsCreated, timers, started, completed>>

\* Time passes until the next timer is due.
TimePasses ==
  /\ Len(timers) > 0
  /\ Head(timers).remaining > 0
  /\ timers' = [k \in DOMAIN timers |->
                  [timers[k] EXCEPT !.remaining = @ - Head(timers).remaining]]
  /\ UNCHANGED <<OtherVars, lastCall, gLog, inputValue, inputAnimation, sectionHidden, loadingMessage,
                 resultText, confidenceWidth, currentResults, errorElement,
                 errorsCreated, events, lastEvent, started, completed>>

NextUi ==
  \/ SubmitInvalid
  \/ SubmitValid
  \/ DelayContinues
  \/ DelayFinishes
  \/ ConfidenceShown
  \/ ErrorRemoved
  \/ AnimationCleared
  \/ TryAgain
  \/ TimePasses

SpecUi == InitUi /\ [][NextUi]_vars

\* The browser runs every timer that is due: time passes and each callback
\* that is due is called.
TimerFires ==
  \/ TimePasses
  \/ DelayContinues
  \/ DelayFinishes
  \/ ConfidenceShown
  \/ ErrorRemoved
  \/ AnimationCleared
FairTimers == WF_vars(TimerFires)

SpecUiFair == SpecUi /\ FairTimers

(***************************************************************************)
(* Specification SpecUiThrows: the page of SpecUi where a statement of      *)
(* performAnalysis may throw (an element of the page is missing, say), so   *)
(* that the catch of handleFormSubmit, lines 253-256, runs.                 *)
(***************************************************************************)
\* A submit event with a valid username whose performAnalysis throws before
\* its first await: showSection('loading') of line 302 has run, the
\* statement of line 310 throws, and the catch calls showError.
SubmitThrows ==
  /\ events < MaxEvents
  /\ \E value \in UiInputs :
       /\ inputValue' = value
       /\ lastEvent' = [type |-> "submit", value |-> value]
       /\ isValidUsername(trim(value))
       /\ started' = Append(started, trim(value))
  /\ sectionHidden' = showSection("loading")
  /\ showError(MessageFailed)
  /\ events' = events + 1
  /\ UNCHANGED <<OtherVars, lastCall, gLog, loadingMessage, resultText, confidenceWidth,
                 currentResults, completed>>

\* A delay of performAnalysis is over and the statement that follows the await
\* throws (line 310 inside the loop, line 315 or 318 after it): the rejected
\* promise reaches the catch of handleFormSubmit, which calls showError.
DelayThrows ==
  /\ TimerDue("delay")
  /\ showErrorWith(Tail(timers), MessageFailed)
  /\ UNCHANGED <<OtherVars, lastCall, gLog, inputValue, sectionHidden, loadingMessage, resultText,
                 confidenceWidth, currentResults, events, lastEvent, started, completed>>

NextUiThrows ==
  \/ NextUi
  \/ SubmitThrows
  \/ DelayThrows

SpecUiThrows == InitUi /\ [][NextUiThrows]_vars

(***************************************************************************)
(* Specification SpecUiAnyStart: the page of SpecUi started with any        *)
(* combination of 'hidden' classes on the three sections (the classes the   *)
(* document gives the sections are not set by the script).                  *)
(***************************************************************************)
InitUiAnyStart ==
  /\ copy \in {1, 2}
  /\ HashIdle
  /\ DistIdle
  /\ NormIdle
  /\ GenIdle
  /\ CatIdle
  /\ PctIdle
  /\ PageIdle
  /\ inputValue = <<>>
  /\ inputAnimation = ""
  /\ sectionHidden \in [Sections -> BOOLEAN]
  /\ loadingMessage = 0
  /\ resultText = NoValue
  /\ confidenceWidth = WidthUnset
  /\ currentResults = Undefined
  /\ errorElement = Null
  /\ errorsCreated = 0
  /\ timers = <<>>
  /\ events = 0
  /\ lastEvent = Null
  /\ started = <<>>
  /\ completed = <<>>
  /\ lastCall = "none"

SpecUiAnyStart == InitUiAnyStart /\ [][NextUi]_vars

(***************************************************************************)
(* Specification SpecShare: the page of SpecUi with clicks on the share     *)
(* button, lines 146-148 and shareResult, lines 468-480.                    *)
(***************************************************************************)
UiOtherVars ==
  <<copy, hashVars, distVars, normVars, catVars, pctVars, genVars, modalVars, formatVars,
    bothVars>>

\* The text of line 472 with the four values it interpolates, as passed to
\* window.open.
shareText(username, size, unit, confidence) ==
  [text |-> "I just checked @${username}'s size and it's ${size} ${unit}! (${confidence}% accuracy) Check yours at",
   username |-> username, size |-> size, unit |-> unit, confidence |-> confidence]

\* A click on the share button: shareResult returns when currentResults is
\* undefined or null (line 469), else opens a window with the text made of
\* currentResults' username, size, unit and confidence.
ShareResultOfDisplay ==
  /\ Len(shareWindows) < MaxShares
  /\ shareWindows' =
       Append(shareWindows,
              IF resultText = NoValue
              THEN Null
              ELSE shareText(Tail(resultText.username), resultText.size,
                             resultText.unit, resultText.confidence))
  /\ UNCHANGED <<UiOtherVars, uiVars>>
ShareResult ==
  /\ Len(shareWindows) < MaxShares
  /\ shareWindows' =
       Append(shareWindows,
              IF currentResults \in {Undefined, Null}
              THEN Null
              ELSE shareText(currentResults.username, currentResults.size,
                             currentResults.unit, currentResults.confidence))
  /\ UNCHANGED <<UiOtherVars, uiVars>>

\* The events of SpecUi with a valid username in the field at every submit,
\* and the clicks on the share button.
NextShare ==
  \/ SubmitValid
  \/ DelayContinues
  \/ DelayFinishes
  \/ ConfidenceShown
  \/ TryAgain
  \/ TimePasses
  \/ ShareResult

SpecShare == InitUi /\ [][NextShare]_vars

(***************************************************************************)
(* Specification SpecModal: the about and privacy modals under the events   *)
(* of lines 151-188: clicks on the two links, on the two close buttons, on  *)
(* a modal outside or inside its content, and the Escape key.  A close      *)
(* button or a modal is clicked only while the modal is visible.            *)
(***************************************************************************)
NotModalVars ==
  <<copy, hashVars, distVars, normVars, catVars, pctVars, genVars, uiVars, shareVars,
    formatVars, bothVars>>

\* The part of the document showModal and hideModal write.
ModalPage == [modalHidden |-> modalHidden, bodyOverflow |-> bodyOverflow, focused |-> focused]
SetModalPage(page) ==
  /\ modalHidden' = page.modalHidden
  /\ bodyOverflow' = page.bodyOverflow
  /\ focused' = page.focused

\* `close${modalType.charAt(0).toUpperCase()}${modalType.slice(1)}`, line 528.
closeBtn(modalType) == IF modalType = "about" THEN "closeAbout" ELSE "closePrivacy"

\* showModal(modalType), lines 522-530.
showModal(page, modalType) ==
  [page EXCEPT !.modalHidden[modalType] = FALSE,
               !.bodyOverflow = "hidden",
               !.focused = closeBtn(modalType)]

\* hideModal(modalType), lines 535-539.
hideModal(page, modalType) ==
  [page EXCEPT !.modalHidden[modalType] = TRUE,
               !.bodyOverflow = ""]

InitModal ==
  /\ copy \in {1, 2}
  /\ HashIdle
  /\ DistIdle
  /\ NormIdle
  /\ GenIdle
  /\ CatIdle
  /\ PctIdle
  /\ UiIdle
  /\ PageIdle

\* A click on the about or the privacy link, lines 151-159.
LinkClick ==
  /\ Len(modalEvents) < MaxModalEvents
  /\ \E modalType \in Modals :
       /\ SetModalPage(showModal(ModalPage, modalType))
       /\ modalEvents' = Append(modalEvents, [type |-> "link", modal |-> modalType])
  /\ UNCHANGED NotModalVars

\* A click on the close button of a visible modal, lines 161-167.
CloseClick ==
  /\ Len(modalEvents) < MaxModalEvents
  /\ \E modalType \in Modals :
       /\ ~modalHidden[modalType]
       /\ SetModalPage(hideModal(ModalPage, modalType))
       /\ modalEvents' = Append(modalEvents, [type |-> "close", modal |-> modalType])
  /\ UNCHANGED NotModalVars

\* A click on a visible modal, lines 170-180: outside the content the target
\* is the modal itself and the modal is hidden, inside nothing happens.
ModalClick ==
  /\ Len(modalEvents) < MaxModalEvents
  /\ \E modalType \in Modals :
     \E outside \in BOOLEAN :
       /\ ~modalHidden[modalType]
       /\ SetModalPage(IF outside THEN hideModal(ModalPage, modalType) ELSE ModalPage)
       /\ modalEvents' = Append(modalEvents,
                                [type |-> IF outside THEN "outside" ELSE "inside",
                                 modal |-> modalType])
  /\ UNCHANGED NotModalVars

\* A keydown of Escape, lines 183-188: both modals are hidden in turn.
EscapeKey ==
  /\ Len(modalEvents) < MaxModalEvents
  /\ SetModalPage(hideModal(hideModal(ModalPage, "about"), "privacy"))
  /\ modalEvents' = Append(modalEvents, [type |-> "Escape", modal |-> ""])
  /\ UNCHANGED NotModalVars

NextModal ==
  \/ LinkClick
  \/ CloseClick
  \/ ModalClick
  \/ EscapeKey

SpecModal == InitModal /\ [][NextModal]_vars

(***************************************************************************)
(* Specification SpecFormat: validateAndFormatInput, lines 204-231, called  *)
(* on a field holding any of the texts of FormatInputs, and called again on *)
(* what it left in the field.                                               *)
(***************************************************************************)
NotFormatVars ==
  <<copy, hashVars, distVars, normVars, catVars, pctVars, genVars, uiVars, shareVars,
    modalVars, bothVars>>

\* Lines 208-210: a leading '@' is removed.
stripAt(value) ==
  IF Len(value) > 0 /\ value[1] = 64 THEN Tail(value) ELSE value

\* Line 213: value.replace(/[^a-zA-Z0-9_]/g, '').
RECURSIVE removeFirstNonWord(_)
removeFirstNonWord(value) ==
  IF Len(value) = 0 THEN value
  ELSE IF WordChar(Head(value)) THEN <<Head(value)>> \o removeFirstNonWord(Tail(value))
       ELSE Tail(value)
RECURSIVE removeNonWord(_)
removeNonWord(value) ==
  IF Len(value) = 0 THEN value
  ELSE IF WordChar(Head(value)) THEN <<Head(value)>> \o removeNonWord(Tail(value))
       ELSE removeNonWord(Tail(value))

\* Line 216: value.slice(0, 15).
sliceFifteen(value) == SubSeq(value, 1, IF Len(value) < 15 THEN Len(value) ELSE 15)

\* Lines 205-218: the value validateAndFormatInput leaves in the field.
formattedValue(value) == sliceFifteen(removeNonWord(stripAt(value)))

\* Lines 221-230: the wrapper's classes after the visual feedback.
wrapperClasses(classes, value) ==
  IF Len(value) > 0 /\ isValidUsername(value)
  THEN (classes \cup {"valid"}) \ {"invalid"}
  ELSE IF Len(value) > 0
       THEN (classes \cup {"invalid"}) \ {"valid"}
       ELSE classes \ {"valid", "invalid"}

\* Sixteen letters, '@' followed by fifteen letters, and seventeen characters
\* of which every third is a space.
InputSixteen == [i \in 1..16 |-> 97]
InputAtFifteen == <<64>> \o [i \in 1..15 |-> 98]
InputSpaced == [i \in 1..17 |-> IF i % 3 = 0 THEN 32 ELSE 99]

\* The texts of the field: every text of HashInputs (over letters, a digit,
\* '_', '@' and the space) and the three long ones.
FormatInputs == HashInputs \cup {InputSixteen, InputAtFifteen, InputSpaced}

InitFormat ==
  /\ copy \in {1, 2}
  /\ HashIdle
  /\ DistIdle
  /\ NormIdle
  /\ GenIdle
  /\ CatIdle
  /\ PctIdle
  /\ UiIdle
  /\ ShareIdle
  /\ ModalIdle
  /\ BothIdle
  /\ fInput \in FormatInputs
  /\ fValue = fInput
  /\ fWrapper \in SUBSET {"valid", "invalid"}
  /\ fHistory = <<>>

\* An input event on the field: validateAndFormatInput(e.target).
FormatInput ==
  /\ Len(fHistory) < MaxFormatCalls
  /\ fValue' = formattedValue(fValue)
  /\ fWrapper' = wrapperClasses(fWrapper, fValue')
  /\ fHistory' = Append(fHistory, fValue')
  /\ UNCHANGED <<NotFormatVars, fInput>>

NextFormat == FormatInput

SpecFormat == InitFormat /\ [][NextFormat]_vars

(***************************************************************************)
(* Specification SpecBoth: generateResults of the first copy (lines         *)
(* 325-352) and of the second (lines 960-982) called on the same username,  *)
(* or run on the same two results of seededRandom.                          *)
(***************************************************************************)
NotBothVars ==
  <<copy, hashVars, distVars, normVars, catVars, pctVars, genVars, uiVars, shareVars,
    modalVars, formatVars>>

\* The second values drawn: one for every tenth residue modulo 1000.
BothSeconds == {rnd2 \in DistRandoms : rnd2 % 100 = 0}

InitBoth ==
  /\ copy \in {1, 2}
  /\ HashIdle
  /\ DistIdle
  /\ NormIdle
  /\ GenIdle
  /\ CatIdle
  /\ PctIdle
  /\ UiIdle
  /\ ShareIdle
  /\ ModalIdle
  /\ FormatIdle
  /\ bInput \in [username : Usernames] \cup [rnd1 : DistRandoms, rnd2 : BothSeconds]
  /\ bResults = NoValue

\* Both copies' generateResults(username).
BothGenerate ==
  /\ bResults = NoValue
  /\ "username" \in DOMAIN bInput
  /\ bResults' = [cp \in {1, 2} |-> performGenerateResults(cp, bInput.username)]
  /\ UNCHANGED <<NotBothVars, bInput>>

\* Both copies' generateResults from the hash on, with the two results of
\* seededRandom drawn.
BothGenerateFromRandoms ==
  /\ bResults = NoValue
  /\ "rnd1" \in DOMAIN bInput
  /\ \E hash \in {DistHash(bInput.rnd1)} :
     \E radius \in {boxMullerRadius(bInput.rnd1)} :
       bResults' = [cp \in {1, 2} |->
                     LET size == sizeFromRadius(cp, radius, bInput.rnd2)
                     IN  [hash |-> hash, size |-> size,
                          result |-> resultsOf(cp, hash, size)]]
  /\ UNCHANGED <<NotBothVars, bInput>>

NextBoth ==
  \/ BothGenerate
  \/ BothGenerateFromRandoms

SpecBoth == InitBoth /\ [][NextBoth]_vars

(***************************************************************************)
(* Properties.                                                             *)
(***************************************************************************)
\* Two strings that differ at most in the case of their ASCII letters.
IsLetter(c) == c \in (65..90) \cup (97..122)
SameUpToCase(s, t) ==
  /\ Len(s) = Len(t)
  /\ \A i \in 1..Len(s) :
       \/ s[i] = t[i]
       \/ IsLetter(s[i]) /\ IsLetter(t[i]) /\ (s[i] - t[i]) \in {32, -32}

C2_CaseInsensitive ==
  \A i \in DOMAIN gLog : \A j \in DOMAIN gLog :
    SameUpToCase(gLog[i].username, gLog[j].username) =>
      /\ gLog[i].hash = gLog[j].hash
      /\ gLog[i].result = gLog[j].result

\* "Foo" and "FOO" have both been generated.
C2_Witness ==
  /\ Len(gLog) >= 2
  /\ gLog[1].username = NameFooMixed
  /\ gLog[2].username = NameFooUpper

\* h * 31 + c wrapped to a signed 32-bit integer.
Times31Plus(h, c) == ToInt32(Hi(h) * 31, (Lo(h) * 31) + c)

RECURSIVE Fold31(_)
\* The fold of h := h * 31 + c over the characters of s, from h = 0.
Fold31(s) ==
  IF Len(s) = 0 THEN 0
  ELSE Times31Plus(Fold31(SubSeq(s, 1, Len(s) - 1)), s[Len(s)])

\* s with its ASCII capital letters replaced by the small ones.
LowerCased(s) == [i \in 1..Len(s) |-> IF s[i] \in 65..90 THEN s[i] + 32 ELSE s[i]]

\* The limb pair w is the absolute value of the 32-bit integer a.
IsAbsOf(w, a) ==
  IF a >= 0 THEN w.hi = Hi(a) /\ w.lo = Lo(a)
  ELSE /\ w.hi >= 0
       /\ w.lo \in 0..(Limb - 1)
       /\ Hi(a) = (-w.hi) - (IF w.lo = 0 THEN 0 ELSE 1)
       /\ Lo(a) = (Limb - w.lo) % Limb

\* C3: after every iteration the accumulator of hashUsername is the fold of
\* h := h * 31 + code(c), wrapped to 32 bits, over the characters of the
\* lower-cased string consumed so far; the value returned is the absolute
\* value of the final accumulator; the empty string hashes to 0.
C3_HashIsFold31 ==
  /\ hPc \in {"loop", "done"} =>
       hHash = Fold31(SubSeq(LowerCased(hUsername), 1, hI))
  /\ hPc = "done" => IsAbsOf(hRet, Fold31(LowerCased(hUsername)))
  /\ (hPc = "done" /\ Len(hUsername) = 0) => hRet = [hi |-> 0, lo |-> 0]

\* "aaaaaa" has been hashed: the accumulator wrapped and ended negative.
C3_Witness ==
  /\ hPc = "done"
  /\ hUsername = NameNegative
  /\ hHash < 0
  /\ hRet = [hi |-> 21749, lo |-> 29600]

\* C4: hashUsername returns a non-negative integer in 0..2^31 for every
\* string, also when the accumulator ends at -2^31.
C4_HashNonNegative ==
  hPc = "done" =>
    /\ hRet.hi \in 0..(2^15)
    /\ hRet.lo \in 0..(Limb - 1)
    /\ hRet.hi = 2^15 => hRet.lo = 0

\* The valid username "xfjfxtf": the accumulator is -2^31, the hash 2^31.
C4_Witness ==
  /\ hPc = "done"
  /\ hUsername = NameMinInt
  /\ isValidUsername(hUsername)
  /\ hHash = (-(2^15)) * Limb
  /\ hRet = [hi |-> 2^15, lo |-> 0]

C6_Confidence ==
  \A i \in DOMAIN gLog :
    /\ gLog[i].result.confidence = 75 + WideMod(gLog[i].hash, 25)
    /\ gLog[i].result.confidence \in 75..99

\* Both ends occur: "d" (hash 100) gets 75 and "foo" (hash 101574) gets 99.
C6_Witness ==
  /\ Len(gLog) >= 2
  /\ gLog[1].username = NameD /\ gLog[1].result.confidence = 75
  /\ gLog[2].username = NameFooLower /\ gLog[2].result.confidence = 99

\* The categories of the loaded table whose closed range contains size.
Matching(size) ==
  {i \in 1..Len(humorousDescriptions(copy)) :
     /\ ~IsNaN(size)
     /\ humorousDescriptions(copy)[i].range[1] <= size
     /\ size <= humorousDescriptions(copy)[i].range[2]}

\* C7 (category coverage): every value k/10 with MIN <= k/10 <= MAX lies in
\* the range of exactly one entry of humorousDescriptions, in both tables.
C7_ExactlyOneCategory ==
  (~IsNaN(cSize) /\ cSize \in MinSize(copy)..MaxSize(copy)) =>
    Cardinality(Matching(cSize)) = 1

\* 2.6, the lower end of the second category of copy 1, right above 2.5.
C7_Witness ==
  /\ cPc = "done"
  /\ copy = 1
  /\ cSize = 26
  /\ cRet.category = 2

\* C8: getDescriptionForSize returns, for the first category whose range
\* contains size, that category's description at index hash mod (number of
\* its descriptions): a member of that category's own descriptions.
C8_DescriptionOfFirstMatch ==
  (cPc = "done" /\ Matching(cSize) # {}) =>
    LET first == CHOOSE i \in Matching(cSize) : \A j \in Matching(cSize) : i <= j
        category == humorousDescriptions(copy)[first]
        n == Len(category.descriptions)
    IN  /\ cRet = category.descriptions[WideMod(cHash, n) + 1]
        /\ \E k \in 1..n : cRet = category.descriptions[k]
        /\ cI = first

\* Size 2.6 and hash 3 in copy 1: the fourth description of the second category.
C8_Witness ==
  /\ cPc = "done"
  /\ copy = 1
  /\ cSize = 26
  /\ cHash = [hi |-> 0, lo |-> 3]
  /\ cRet = Description(1, 2, 3)

C10_UnitByHash ==
  /\ \A i \in DOMAIN gLog :
       /\ gLog[i].result.unit = "cm" <=> WideMod(gLog[i].hash, 10) = 0
       /\ gLog[i].result.unit = "inches" <=> WideMod(gLog[i].hash, 10) # 0
  /\ \A i \in DOMAIN gLog : \A j \in DOMAIN gLog :
       gLog[i].hash = gLog[j].hash => gLog[i].result.unit = gLog[j].result.unit

\* "alice" (hash 92903040) gets "cm", "foo" (hash 101574) gets "inches".
C10_Witness ==
  /\ Len(gLog) >= 2
  /\ gLog[1].username = NameAlice /\ gLog[1].result.unit = "cm"
  /\ gLog[2].username = NameFooLower /\ gLog[2].result.unit = "inches"

\* C11 (displayed value): when the unit is "cm" the returned size is the
\* measurement times 2.54 rounded to one decimal, a half rounding up; when the
\* unit is "inches" it is the measurement itself.
C11_DisplayedValue ==
  gPc = "returned" =>
    /\ gResult.unit \in {"cm", "inches"}
    /\ gResult.unit = "cm" =>
         /\ 100 * gResult.size <= (254 * gSize) + 50
         /\ (254 * gSize) + 50 < (100 * gResult.size) + 100
    /\ gResult.unit = "inches" => gResult.size = gSize

\* 2.5 inches with a hash divisible by 10: 6.35 cm is shown as 6.4.
C11_Witness ==
  /\ gPc = "returned"
  /\ gSize = 25
  /\ gResult.unit = "cm"
  /\ gResult.size = 64

\* C12: for every measurement k/10 in [1, 13] calculatePercentile returns an
\* integer in 1..99, and 50 for the mean 6.5.
C12_PercentileRange ==
  (pPc = "returned" /\ ~IsNaN(pSize) /\ pSize \in 10..130) =>
    /\ pRet \in 1..99
    /\ pSize = 65 => pRet = 50

\* The percentile of 6.5 has been computed.
C12_Witness ==
  /\ pPc = "returned"
  /\ pSize = 65
  /\ pRet = 50

\* z = (size - 6.5) / 2 clamped to [-3, 3], then round(50 + z * 16.67) clamped
\* to [1, 99]; size in tenths, so z = d / 20 with d clamped to [-60, 60].
ClampedZPercentile(size) ==
  LET d == IF size - 65 < -60 THEN -60 ELSE IF size - 65 > 60 THEN 60 ELSE size - 65
      rounded == ((100000 + (d * 1667)) + 1000) \div 2000
  IN  IF rounded < 1 THEN 1 ELSE IF rounded > 99 THEN 99 ELSE rounded

\* C13: for every measurement k/10 in [1, 13] the percentile of the record is
\* the value of the formula "clamp z to [-3, 3], round(50 + z * 16.67), clamp
\* to [1, 99]" on the measurement before the unit conversion, also when the
\* unit is "cm".
C13_PercentileOfMeasurement ==
  (gPc = "returned" /\ copy = 1) =>
    /\ gResult.originalSize = gSize
    /\ gResult.percentile = ClampedZPercentile(gSize)
    /\ gResult.percentile = calculatePercentile(gResult.originalSize)

\* 2.5 inches shown as 6.4 cm: the percentile is that of 2.5 (17), not of 6.4.
C13_Witness ==
  /\ gPc = "returned"
  /\ copy = 1
  /\ gResult.unit = "cm"
  /\ gResult.originalSize = 25
  /\ gResult.size = 64
  /\ gResult.percentile = 17

C15_Total ==
  \A i \in DOMAIN gLog :
    isValidUsername(gLog[i].username) =>
      LET r == gLog[i].result
      IN  /\ DOMAIN r = IF copy = 1
                        THEN {"size", "originalSize", "unit", "confidence",
                              "description", "percentile"}
                        ELSE {"size", "unit", "confidence", "description"}
          /\ r.size \in Nat /\ IsFinite(r.size)
          /\ r.unit \in {"cm", "inches"}
          /\ r.confidence \in Nat
          /\ r.description # Undefined
          /\ r.description.table \in {0, 1, 2}
          /\ copy = 1 => (r.percentile \in Nat /\ IsFinite(r.percentile))

\* "foo" (hash 101574) and "xfjfxtf" (hash 2^31) have been generated.
C15_Witness ==
  /\ Len(gLog) >= 2
  /\ gLog[1].username = NameFooLower
  /\ gLog[2].username = NameMinInt
  /\ isValidUsername(NameMinInt)
  /\ gLog[2].hash = [hi |-> 2^15, lo |-> 0]
  /\ gLog[2].result.description # Undefined

\* ^[A-Za-z0-9_]{1,15}$
MatchesPattern(s) ==
  /\ Len(s) \in 1..15
  /\ \A i \in 1..Len(s) : s[i] \in (65..90) \cup (97..122) \cup (48..57) \cup {95}

\* The pending delays of performAnalysis calls.
PendingCalls == {timers[k].data.call : k \in {j \in DOMAIN timers : timers[j].kind = "delay"}}

\* C16: generateResults is only called with a username matching
\* ^[A-Za-z0-9_]{1,15}$, and a submit whose trimmed value does not match
\* shows the error message, starts no analysis and leaves the sections and
\* currentResults as they are.
C16_InvalidRejected ==
  [][/\ gLog' # gLog => MatchesPattern(gLog'[Len(gLog')].username)
     /\ (/\ events' = events + 1
         /\ lastEvent'.type = "submit"
         /\ ~MatchesPattern(trim(lastEvent'.value))) =>
          /\ errorElement' # Null
          /\ errorElement'.textContent = MessageInvalid
          /\ started' = started
          /\ PendingCalls' = PendingCalls
          /\ gLog' = gLog
          /\ sectionHidden' = sectionHidden
          /\ currentResults' = currentResults]_vars

\* "@d" has been submitted and rejected after " Alice " was analysed as "Alice".
C16_Witness ==
  /\ lastEvent # Null
  /\ lastEvent.type = "submit"
  /\ lastEvent.value = InputAtD
  /\ errorElement # Null
  /\ Len(gLog) = 1
  /\ gLog[1].username = NameAliceMixed
  /\ started = <<NameAliceMixed>>

\* C17: performAnalysis shows the loading section first, displays all loading
\* messages in list order, each followed by its delay, and only after the
\* last delay calls generateResults, writes the results and shows the results
\* section; no call has shown its results while one of its delays is pending.
C17_ComputeAfterAnimation ==
  /\ [](\A k \in DOMAIN completed :
          /\ completed[k].shown = loadingMessages
          /\ completed[k].delays = Len(loadingMessages)
          /\ completed[k].call \notin PendingCalls)
  /\ [][/\ started' # started =>
             /\ sectionHidden' = [s \in Sections |-> s # "loading"]
             /\ loadingMessage' = loadingMessages[1]
             /\ gLog' = gLog /\ completed' = completed
        /\ gLog' # gLog =>
             /\ Len(completed') = Len(completed) + 1
             /\ completed'[Len(completed')].username = gLog'[Len(gLog')].username
             /\ completed'[Len(completed')].call \in PendingCalls
             /\ sectionHidden' = [s \in Sections |-> s # "results"]
        /\ (sectionHidden["results"] /\ ~sectionHidden'["results"]) => gLog' # gLog]_vars

\* An analysis of "foo" has returned and its results are shown.
C17_Witness ==
  /\ Len(completed) = 1
  /\ completed[1].username = NameFooLower
  /\ completed[1].shown = <<1, 2, 3, 4, 5, 6, 7>>
  /\ ~sectionHidden["results"]
  /\ timers # <<>>

\* C18: whenever the results section is visible, the displayed username, size,
\* unit, confidence and description and the stored currentResults are those
\* generateResults returned for one submitted username.
C18_ResultsOfOneSubmission ==
  ~sectionHidden["results"] =>
    \E k \in DOMAIN gLog :
      LET u == gLog[k].username
          r == gLog[k].result
      IN  /\ \E j \in DOMAIN started : started[j] = u
          /\ resultText.username = <<64>> \o u
          /\ resultText.size = r.size
          /\ resultText.unit = r.unit
          /\ resultText.confidence = r.confidence
          /\ resultText.description = r.description
          /\ currentResults.username = u
          /\ currentResults.size = r.size
          /\ currentResults.unit = r.unit
          /\ currentResults.confidence = r.confidence
          /\ currentResults.description = r.description

\* The results of a second analysis, of another username, are on display.
C18_Witness ==
  /\ ~sectionHidden["results"]
  /\ Len(gLog) = 2
  /\ gLog[1].username = NameFooLower
  /\ gLog[2].username = NameAliceMixed
  /\ currentResults.username = NameAliceMixed
  /\ resultText.username = <<64>> \o NameAliceMixed

\* The call of performAnalysis number k is waiting for one of its delays.
CallPending(k) == k \in PendingCalls

\* The results section shows, and currentResults holds, the result of call k.
CallDisplayed(k) ==
  /\ ~sectionHidden["results"]
  /\ k \in DOMAIN started
  /\ currentResults # Null /\ currentResults # Undefined
  /\ currentResults.username = started[k]
  /\ \E j \in DOMAIN gLog :
       /\ gLog[j].username = started[k]
       /\ currentResults = [username |-> started[k]] @@ gLog[j].result

\* C19 (liveness): if the timers that are due keep firing, every submission
\* of a valid username leads to a state in which the results section is
\* visible and currentResults holds the result for that username.
C19_SubmissionDisplayed ==
  [](\A k \in 1..MaxEvents : CallPending(k) => <>CallDisplayed(k))

\* Two analyses were started and both have displayed their results.
C19_Witness ==
  /\ Len(started) = 2
  /\ Len(completed) = 2
  /\ CallDisplayed(completed[2].call)

\* C20: when a valid submission was made while an earlier analysis was in its
\* delays, the results displayed and stored once no analysis is pending are
\* those of the most recently submitted username.
C20_LatestSubmissionShown ==
  (/\ Len(started) >= 2
   /\ PendingCalls = {}
   /\ ~sectionHidden["results"]) =>
     /\ currentResults.username = started[Len(started)]
     /\ resultText.username = <<64>> \o started[Len(started)]

\* The number of pending timers of showError that remove the message.
RemovalTimers(ts) == Cardinality({k \in DOMAIN ts : ts[k].kind = "removeError"})

\* A step in which the catch of handleFormSubmit has called showError.
AnalysisFailed ==
  /\ RemovalTimers(timers') > RemovalTimers(timers)
  /\ errorElement'.textContent = MessageFailed

\* C21: when performAnalysis throws, handleFormSubmit shows the "please try
\* again" message and leaves the input section visible, never the loading
\* section.
C21_FailureShowsInput ==
  [][AnalysisFailed =>
       /\ errorElement'.textContent = MessageFailed
       /\ ~sectionHidden'["input"]
       /\ sectionHidden'["loading"]]_vars

\* showSection has been called: performAnalysis was called, or
\* resetToInitialState, which leaves currentResults null until the next
\* displayResults.
SectionShown == started # <<>> \/ currentResults # Undefined

\* C22: showSection(x) leaves exactly the section x visible, and from the
\* first showSection call on exactly one of the three sections is visible.
C22_OneSectionVisible ==
  /\ [](SectionShown => Cardinality(VisibleSections) = 1)
  /\ [][/\ started' # started => VisibleSections' = {"loading"}
        /\ gLog' # gLog => VisibleSections' = {"results"}
        /\ (events' # events /\ lastEvent'.type = "tryAgain") =>
             VisibleSections' = {"input"}]_vars

\* An analysis has shown its results, and "try again" has brought the input
\* section back.
C22_Witness ==
  /\ Len(completed) = 1
  /\ lastEvent # Null
  /\ lastEvent.type = "tryAgain"
  /\ VisibleSections = {"input"}
  /\ currentResults = Null

\* C23: after resetToInitialState the input section is the visible one, the
\* username field is empty, currentResults is null, the confidence bar's
\* width is '0' and the document holds no error message element.
C23_ResetPostconditions ==
  [][(events' # events /\ lastEvent'.type = "tryAgain") =>
       /\ VisibleSections' = {"input"}
       /\ inputValue' = <<>>
       /\ currentResults' = Null
       /\ confidenceWidth' = WidthZero
       /\ errorElement' = Null]_vars

\* "@d" was rejected with an error message, and "try again" has removed the
\* message before its 5 seconds were over.
C23_Witness ==
  /\ lastEvent # Null
  /\ lastEvent.type = "tryAgain"
  /\ errorsCreated = 1
  /\ RemovalTimers(timers) = 1
  /\ errorElement = Null
  /\ inputValue = <<>>
  /\ currentResults = Null

\* C24: shareResult opens a window only when the last of displayResults and
\* resetToInitialState to be called was displayResults, with the username,
\* size, unit and confidence of the result displayed last; before the first
\* analysis and after a reset it opens none.
C24_ShareOnlyDisplayed ==
  [][shareWindows' # shareWindows =>
       /\ Len(shareWindows') = Len(shareWindows) + 1
       /\ shareWindows'[Len(shareWindows')] =
            IF lastCall = "displayResults"
            THEN LET last == gLog[Len(gLog)]
                 IN  shareText(last.username, last.result.size,
                               last.result.unit, last.result.confidence)
            ELSE Null]_vars

\* The results of "foo" were displayed and "try again" was clicked; a click
\* on the share button after that has opened no window.
C24_Witness ==
  /\ Len(completed) = 1
  /\ completed[1].username = NameFooLower
  /\ lastCall = "resetToInitialState"
  /\ shareWindows = <<Null>>

\* C25: once resetToInitialState has set the confidence bar's width to '0',
\* the width is '0' until the next displayResults.
C25_WidthStaysZero ==
  lastCall = "resetToInitialState" => confidenceWidth = WidthZero

\* C26: scrolling is locked (body overflow 'hidden') exactly when at least one
\* of the two modals is visible, and after Escape both modals are hidden and
\* scrolling is unlocked.
C26_ScrollLockedWhileModal ==
  /\ (bodyOverflow = "hidden") <=> (\E modalType \in Modals : ~modalHidden[modalType])
  /\ (modalEvents # <<>> /\ modalEvents[Len(modalEvents)].type = "Escape") =>
       /\ \A modalType \in Modals : modalHidden[modalType]
       /\ bodyOverflow = ""

\* The timers, among ts, that showError started for the element and that are
\* not due yet: a showError call on the element is less than 5 seconds old.
YoungRemovalTimers(ts, element) ==
  {k \in DOMAIN ts : /\ ts[k].kind = "removeError"
                     /\ ts[k].data.element = element.id
                     /\ ts[k].remaining > 0}

\* C27: a message shown by showError is removed 5 seconds after the call that
\* showed it, also when the element was reused by a later call, and unless
\* the page is reset no message is removed earlier.
C27_MessageStaysFiveSeconds ==
  [][(/\ errorElement # Null
      /\ errorElement' = Null
      /\ ~(events' # events /\ lastEvent'.type = "tryAgain")) =>
        YoungRemovalTimers(timers', errorElement) = {}]_vars

\* C28: after validateAndFormatInput the field's value consists of characters
\* A-Z, a-z, 0-9 and '_' only and has length 0..15, the wrapper is marked
\* 'valid' exactly when the value is not empty and is never marked 'invalid',
\* and a second call changes nothing.
C28_FormattedInput ==
  fHistory # <<>> =>
    /\ Len(fValue) \in 0..15
    /\ \A i \in DOMAIN fValue : fValue[i] \in (65..90) \cup (97..122) \cup (48..57) \cup {95}
    /\ fValue = <<>> \/ MatchesPattern(fValue)
    /\ ("valid" \in fWrapper) <=> (fValue # <<>>)
    /\ "invalid" \notin fWrapper
    /\ \A k \in DOMAIN fHistory : fHistory[k] = fHistory[1]

\* The function ran twice on seventeen characters of which five are spaces.
C28_Witness ==
  /\ fInput = InputSpaced
  /\ Len(fHistory) = 2
  /\ Len(fValue) = 12
  /\ fWrapper = {"valid"}

\* The parts of the claim on the values both copies compute: the same hash,
\* confidence and unit, and the measurement of the 3-10 copy before the unit
\* conversion is the measurement of the 1-13 copy clamped to [3, 10].
CopiesAgreeOnValues ==
  /\ bResults[1].hash = bResults[2].hash
  /\ bResults[1].result.confidence = bResults[2].result.confidence
  /\ bResults[1].result.unit = bResults[2].result.unit
  /\ bResults[2].size =
       IF bResults[1].size < 30 THEN 30
       ELSE IF bResults[1].size > 100 THEN 100
       ELSE bResults[1].size

\* C29 as stated: the copies agree on everything except the clamp bounds and
\* the description table, so both return records of the same fields with the
\* same hash, confidence and unit and the clamped measurement.
C29_CopiesAgreeOnAllElse ==
  bResults # NoValue =>
    /\ CopiesAgreeOnValues
    /\ DOMAIN bResults[1].result = DOMAIN bResults[2].result

\* C29: the two copies of the generator return the same hash, confidence and
\* unit, and the measurement of the 3-10 copy before the unit conversion is
\* the measurement of the 1-13 copy clamped to [3, 10]; besides the clamp
\* bounds and the description table the copies differ in that only the 1-13
\* copy returns the fields originalSize and percentile.
C29_CopiesAgree ==
  bResults # NoValue =>
    /\ CopiesAgreeOnValues
    /\ DOMAIN bResults[1].result =
         DOMAIN bResults[2].result \cup {"originalSize", "percentile"}
    /\ DOMAIN bResults[2].result \cap {"originalSize", "percentile"} = {}

\* Both copies ran on the username "ia", which the 1-13 copy measures below
\* 3 and the 3-10 copy therefore at 3.
C29_Witness ==
  /\ bInput = [username |-> <<105, 97>>]
  /\ bResults # NoValue
  /\ bResults[1].size < 30
  /\ bResults[2].size = 30
  /\ "percentile" \in DOMAIN bResults[1].result

====
